---- MODULE Spec2Model ----
(***************************************************************************)
(* Question-answering core of AADIS: QueryAnalyzer, SupervisorAgent and    *)
(* QAOrchestrator (src/src/agents/qa_agents).                              *)
(*                                                                         *)
(* A question is a sequence of word tokens (the words of the string,       *)
(* separated by single blanks).  A text (answer, message) is a sequence of *)
(* string fragments; concatenation of texts is \o.  A Python dict is an    *)
(* ordered map: a sequence of <<key, value>> pairs with distinct keys, in  *)
(* insertion order.                                                        *)
(***************************************************************************)
EXTENDS Naturals, Integers, Sequences, FiniteSets, TLC

VARIABLES
    conversation_history,  \* QAOrchestrator.conversation_history
    clock,                 \* value the next _get_timestamp() call returns
    last_op,               \* the last orchestrator call and what it returned
    asked,                 \* per session: entries appended since its last clear
    ask_count,             \* per session: ask calls since its last clear
    query,                 \* Supervisor: the question being processed
    agent_results,         \* Supervisor: the result map built by routing
    final_response,        \* Supervisor: the value process_query returned
    clear_pc,              \* concurrent clear_history: position in the handler
    clear_session,         \* concurrent clear_history: its session_id
    clear_iter,            \* concurrent clear_history: list iterator index
    clear_acc,             \* concurrent clear_history: the list being built
    ask_pc,                \* concurrent ask_question: position in the handler
    ask_entry,             \* concurrent ask_question: its conversation_entry
    query_analysis,        \* outcome of the QueryAnalyzer.process_query call
    store,                 \* what storage and the vector index hold for one request
    agent_result           \* value a retrieval agent's process_query returned

vars == <<conversation_history, clock, last_op, asked, ask_count,
          query, agent_results, final_response,
          clear_pc, clear_session, clear_iter, clear_acc, ask_pc, ask_entry,
          query_analysis, store, agent_result>>

orchVars == <<conversation_history, clock, last_op, asked, ask_count>>
supVars == <<query, agent_results, final_response>>
concVars == <<clear_pc, clear_session, clear_iter, clear_acc, ask_pc, ask_entry>>
agentVars == <<query_analysis, store, agent_result>>

(***************************************************************************)
(* Bounds of the model.                                                    *)
(***************************************************************************)
MaxWords == 4         \* longest question handed to the Supervisor, in words
MaxAsks == 3          \* ask_question calls in one behaviour
MaxResults == 3       \* entries put into a result map handed to synthesis
MaxFaultAsks == 2     \* ask_question calls in one behaviour with raising steps
MaxInitHist == 2      \* history length when the concurrent calls start

Sessions == {"default", "web_session"}

\* Words questions are built from: a capitalised text trigger, triggers of two
\* table patterns, an image trigger and a word that triggers nothing.
Vocabulary == {"What", "table", "row", "figure", "cat"}

\* A question that is not a string (Python does not enforce the str hint).
NoneQuestion == <<"<None>">>

RECURSIVE SeqsUpTo(_, _)
SeqsUpTo(S, n) ==
    IF n = 0 THEN {<<>>}
    ELSE LET shorter == SeqsUpTo(S, n - 1)
         IN  shorter \cup {Append(q, w) : q \in shorter, w \in S}

Questions == SeqsUpTo(Vocabulary, MaxWords) \cup {NoneQuestion}

(***************************************************************************)
(* Python dict as an ordered map.                                          *)
(***************************************************************************)
MapKeys(m) == [i \in 1..Len(m) |-> m[i][1]]
MapHas(m, k) == \E i \in 1..Len(m) : m[i][1] = k
MapGet(m, k) == m[CHOOSE i \in 1..Len(m) : m[i][1] = k][2]
\* d[k] = v: a new key goes last, an existing key keeps its place.
MapPut(m, k, v) ==
    IF MapHas(m, k)
    THEN [i \in 1..Len(m) |-> IF m[i][1] = k THEN <<k, v>> ELSE m[i]]
    ELSE Append(m, <<k, v>>)

\* sep.join(parts) for texts.
RECURSIVE Join(_, _)
Join(parts, sep) ==
    IF parts = <<>> THEN <<>>
    ELSE IF Len(parts) = 1 THEN parts[1]
    ELSE parts[1] \o <<sep>> \o Join(Tail(parts), sep)

RECURSIVE Flatten(_)
Flatten(parts) == IF parts = <<>> THEN <<>> ELSE parts[1] \o Flatten(Tail(parts))

(***************************************************************************)
(* QueryAnalyzer                                                           *)
(***************************************************************************)
\* str.lower(), word by word.
LowerWord(w) == CASE w = "What" -> "what" [] w = "Total" -> "total" [] OTHER -> w
lower(q) == [i \in 1..Len(q) |-> LowerWord(q[i])]

NumberWords == {"1", "2"}

\* Each pattern is the set of phrases its alternation matches between word
\* boundaries; \d+ stands for one number word.
text_patterns ==
    << {<<"what">>, <<"who">>, <<"when">>, <<"where">>, <<"why">>, <<"how">>,
        <<"explain">>, <<"describe">>, <<"tell", "me", "about">>},
       {<<"definition">>, <<"meaning">>, <<"concept">>, <<"idea">>},
       {<<"summary">>, <<"summarize">>, <<"overview">>} >>

table_patterns ==
    << {<<"table">>, <<"data">>, <<"numbers">>, <<"statistics">>, <<"stats">>, <<"values">>},
       {<<"row">>, <<"column">>, <<"cell">>, <<"header">>},
       {<<"count">>, <<"sum">>, <<"average">>, <<"total">>, <<"maximum">>,
        <<"minimum">>, <<"mean">>},
       {<<"compare">>, <<"comparison">>, <<"versus">>, <<"vs">>},
       {<<"list", "all">>, <<"show", "all">>, <<"find", "all">>} >>

image_patterns ==
    << {<<"image">>, <<"picture">>, <<"figure">>, <<"chart">>, <<"graph">>, <<"diagram">>},
       {<<"visual">>, <<"show">>, <<"display">>, <<"illustration">>},
       {<<"figure", n>> : n \in NumberWords} \cup {<<"image", n>> : n \in NumberWords} >>

\* re.search(pattern, query): some phrase of the pattern occurs in the words.
re_search(pattern, words) ==
    \E ph \in pattern :
        \E i \in 1..(Len(words) + 1 - Len(ph)) :
            SubSeq(words, i, i + Len(ph) - 1) = ph

\* Scores are fractions num/den.
_calculate_pattern_score_of_phrases(words, patterns) ==
    LET matches == Cardinality({i \in 1..Len(patterns) : re_search(patterns[i], words)})
        total_patterns == Cardinality(UNION {patterns[i] : i \in 1..Len(patterns)})
    IN  IF total_patterns > 0 THEN [num |-> matches, den |-> total_patterns]
        ELSE [num |-> 0, den |-> 1]

_calculate_pattern_score(words, patterns) ==
    LET matches == Cardinality({i \in 1..Len(patterns) : re_search(patterns[i], words)})
        total_patterns == Len(patterns)
    IN  IF total_patterns > 0 THEN [num |-> matches, den |-> total_patterns]
        ELSE [num |-> 0, den |-> 1]

ThresholdNum == 3
ThresholdDen == 10
DefaultNum == 1
DefaultDen == 2

\* score > 0.3
AtLeastFifth(score) == score.num * 5 >= score.den

AboveThreshold(score) == score.num * ThresholdDen > ThresholdNum * score.den

ScoreLess(a, b) == a.num * b.den < b.num * a.den

question_words == {"what", "who", "when", "where", "why", "how"}
HighWords == 20
HighQuestionWords == 2
MediumWords == 10
MediumQuestionWords == 1

_assess_complexity(q) ==
    LET word_count == Len(q)
        qw == Cardinality({i \in 1..Len(q) : lower(q)[i] \in question_words})
    IN  IF word_count > HighWords \/ qw > HighQuestionWords THEN "high"
        ELSE IF word_count > MediumWords \/ qw > MediumQuestionWords THEN "medium"
        ELSE "low"

\* Lines 103-108: each entity pattern is a word of the first set followed by
\* a number word or, for "table \w+", by any word; case is ignored.
entity_patterns ==
    << [first |-> {"table"}, second |-> "word"],
       [first |-> {"figure", "image"}, second |-> "number"],
       [first |-> {"page"}, second |-> "number"],
       [first |-> {"chapter", "section"}, second |-> "number"] >>

\* re.findall(pattern, query, re.IGNORECASE): the matches from left to right,
\* none overlapping the one before, as they are spelled in the question.
RECURSIVE re_findall(_, _, _)
re_findall(pattern, words, i) ==
    IF i >= Len(words) THEN {}
    ELSE IF /\ LowerWord(words[i]) \in pattern.first
            /\ (pattern.second = "word" \/ words[i + 1] \in NumberWords)
         THEN {SubSeq(words, i, i + 1)} \cup re_findall(pattern, words, i + 2)
         ELSE re_findall(pattern, words, i + 1)

\* Lines 98-114: list(set(entities)), a collection without order or repeats.
_extract_entities(q) ==
    UNION {re_findall(entity_patterns[k], q, 1) : k \in 1..Len(entity_patterns)}

\* Lines 116-129: the lower-cased words that are no stop words and longer
\* than two characters, the first ten of them.
stop_words ==
    {"a", "an", "and", "are", "as", "at", "be", "by", "for", "from",
     "has", "he", "in", "is", "it", "its", "of", "on", "that", "the",
     "to", "was", "were", "will", "with", "what", "when", "where", "who",
     "why", "how", "can", "could", "should", "would", "do", "does", "did"}

\* The words of the vocabularies that are one or two characters long.
ShortWords == {"1", "2"}

MaxKeywords == 10

_extract_keywords(q) ==
    LET keywords == SelectSeq(lower(q), LAMBDA w : w \notin stop_words /\ w \notin ShortWords)
    IN  SubSeq(keywords, 1, IF Len(keywords) < MaxKeywords THEN Len(keywords) ELSE MaxKeywords)

\* max(confidence_scores.keys(), key=confidence_scores.get): the first key,
\* in insertion order, whose score no other key exceeds.
MaxKeyLast(scores) ==
    LET best == CHOOSE i \in 1..Len(scores) :
                    /\ \A j \in 1..Len(scores) : ~ScoreLess(scores[i][2], scores[j][2])
                    /\ \A j \in (i + 1)..Len(scores) : ScoreLess(scores[j][2], scores[i][2])
    IN  scores[best][1]

MaxKey(scores) ==
    LET best == CHOOSE i \in 1..Len(scores) :
                    /\ \A j \in 1..Len(scores) : ~ScoreLess(scores[i][2], scores[j][2])
                    /\ \A j \in 1..(i - 1) : ScoreLess(scores[j][2], scores[i][2])
    IN  scores[best][1]

\* Lines 65-67: what the analyzer falls back to when no category was detected.
no_query_types == <<>>

default_query_types == <<"text">>

zero_score == [num |-> 0, den |-> 1]

default_score == [num |-> DefaultNum, den |-> DefaultDen]

\* Line 81: len(query_types) > 1.
requires_multi_agent_nonempty(query_types) == Len(query_types) > 0

requires_multi_agent(query_types) == Len(query_types) > 1

QueryAnalyzer_process_query(q) ==
    LET query_lower == lower(q)
        text_score == _calculate_pattern_score(query_lower, text_patterns)
        table_score == _calculate_pattern_score(query_lower, table_patterns)
        image_score == _calculate_pattern_score(query_lower, image_patterns)
        t1 == IF AboveThreshold(text_score) THEN <<"text">> ELSE <<>>
        s1 == IF AboveThreshold(text_score) THEN <<<<"text", text_score>>>> ELSE <<>>
        t2 == IF AboveThreshold(table_score) THEN Append(t1, "table") ELSE t1
        s2 == IF AboveThreshold(table_score) THEN MapPut(s1, "table", table_score) ELSE s1
        t3 == IF AboveThreshold(image_score) THEN Append(t2, "image") ELSE t2
        s3 == IF AboveThreshold(image_score) THEN MapPut(s2, "image", image_score) ELSE s2
        query_types == IF t3 = <<>> THEN default_query_types ELSE t3
        confidence_scores ==
            IF t3 = <<>> THEN MapPut(s3, "text", default_score)
            ELSE s3
    IN  [original_query |-> q,
         query_types |-> query_types,
         confidence_scores |-> confidence_scores,
         primary_type |-> MaxKey(confidence_scores),
         entities |-> _extract_entities(q),
         keywords |-> _extract_keywords(q),
         complexity |-> _assess_complexity(q),
         requires_multi_agent |-> requires_multi_agent(query_types)]

(***************************************************************************)
(* Retrieval agents, as the Supervisor sees them: what process_query can   *)
(* return.  The evidence an agent finds is decided by storage, outside the *)
(* Supervisor, so a request fixes one possible return value per agent.     *)
(***************************************************************************)
Categories == {"text", "table", "image"}

TextSource1 == [document |-> "a.pdf", page |-> 1, type |-> "paragraph",
                similarity |-> "0.9", snippet |-> "alpha"]
TextSource2 == [document |-> "b.pdf", page |-> 2, type |-> "heading",
                similarity |-> "0.7", snippet |-> "beta"]
TableSource1 == [type |-> "table", document |-> "a.pdf", page |-> 3,
                 caption |-> "Sales", headers |-> <<"qty">>, relevance |-> "2"]
ImageSource1 == [type |-> "image", document |-> "b.pdf", page |-> 4,
                 caption |-> "Chart", path |-> "img/1.png", dimensions |-> "8x6",
                 relevance |-> "3"]
ImageSource2 == [type |-> "image", document |-> "a.pdf", page |-> 5,
                 caption |-> "No caption", path |-> "img/2.png", dimensions |-> "Unknown",
                 relevance |-> "1"]

TextRAGAgent_process_query ==
    { [status |-> "success", answer |-> <<"text answer 2">>,
       sources |-> <<TextSource1, TextSource2>>, agent_type |-> "text_rag"],
      [status |-> "success", answer |-> <<"text answer 1">>,
       sources |-> <<TextSource2>>, agent_type |-> "text_rag"],
      [status |-> "no_results", message |-> <<"No relevant text found for your query.">>,
       sources |-> <<>>],
      [status |-> "error", message |-> <<"Error processing query: ", "text failure">>,
       sources |-> <<>>] }

TableAnalysisAgent_process_query ==
    { [status |-> "success", answer |-> <<"table answer">>,
       sources |-> <<TableSource1>>, agent_type |-> "table_analysis"],
      [status |-> "no_results", message |-> <<"No relevant tables found for your query.">>,
       sources |-> <<>>],
      [status |-> "error", message |-> <<"Error analyzing tables: ", "table failure">>,
       sources |-> <<>>] }

ImageAnalysisAgent_process_query ==
    { [status |-> "success", answer |-> <<"image answer">>,
       sources |-> <<ImageSource1, ImageSource2>>, agent_type |-> "image_analysis"],
      [status |-> "no_results", message |-> <<"No relevant images found for your query.">>,
       sources |-> <<>>],
      [status |-> "error", message |-> <<"Error analyzing images: ", "image failure">>,
       sources |-> <<>>] }

AgentOutcomes(category) ==
    CASE category = "text" -> TextRAGAgent_process_query
      [] category = "table" -> TableAnalysisAgent_process_query
      [] category = "image" -> ImageAnalysisAgent_process_query

\* One request: the value each agent returns if it is invoked.
Oracles == {[text |-> t, table |-> b, image |-> i] :
                t \in AgentOutcomes("text"), b \in AgentOutcomes("table"),
                i \in AgentOutcomes("image")}

\* can_handle of the agent registered under agent_key.
can_handle(agent_key, query_type) ==
    CASE agent_key = "text" -> query_type \in {"text", "general"}
      [] agent_key = "table" -> query_type = "table"
      [] agent_key = "image" -> query_type = "image"

(***************************************************************************)
(* SupervisorAgent                                                         *)
(***************************************************************************)
\* self.agents
agents == {"text", "table", "image"}

\* A call either returns a value or raises.
Returned(v) == [raised |-> FALSE, value |-> v]
Raised(e) == [raised |-> TRUE, exc |-> e]

\* self.log_warning is defined neither by BaseAgent nor by BaseQAAgent.
log_warning == Raised("'SupervisorAgent' object has no attribute 'log_warning'")

RECURSIVE RouteFrom_until_failure(_, _, _, _)
RouteFrom_until_failure(query_types, i, results, oracle) ==
    IF i > Len(query_types) THEN Returned(results)
    ELSE LET query_type == query_types[i]
         IN  IF query_type \in agents
             THEN IF can_handle(query_type, query_type)
                  THEN IF oracle[query_type].status = "success"
                       THEN RouteFrom_until_failure(query_types, i + 1,
                                MapPut(results, query_type, oracle[query_type]), oracle)
                       ELSE Returned(MapPut(results, query_type, oracle[query_type]))
                  ELSE log_warning
             ELSE log_warning

RECURSIVE RouteFrom(_, _, _, _)
RouteFrom(query_types, i, results, oracle) ==
    IF i > Len(query_types) THEN Returned(results)
    ELSE LET query_type == query_types[i]
         IN  IF query_type \in agents
             THEN IF can_handle(query_type, query_type)
                  THEN RouteFrom(query_types, i + 1,
                                 MapPut(results, query_type, oracle[query_type]), oracle)
                  ELSE log_warning
             ELSE log_warning

Reverse(seq) == [i \in 1..Len(seq) |-> seq[Len(seq) + 1 - i]]

_route_to_agents_reversed(q, analysis, oracle) ==
    RouteFrom(Reverse(analysis.query_types), 1, <<>>, oracle)

_route_to_agents(q, analysis, oracle) == RouteFrom(analysis.query_types, 1, <<>>, oracle)

agent_order == <<"text", "table", "image">>

\* agent_type.replace("_", " ").title()
Title(agent_type) ==
    CASE agent_type = "text" -> "Text"
      [] agent_type = "table" -> "Table"
      [] agent_type = "image" -> "Image"
      [] agent_type = "general" -> "General"

SectionHeading(agent_type) == "## " \o Title(agent_type) \o " Information:\n"
MultiIntro(q) == <<"Based on your query '">> \o q
                    \o <<"', I found information from multiple sources:\n\n">>
MultiClosing ==
    <<"This comprehensive answer draws from multiple information sources in the documents.">>

InOrder(seq, x) == \E i \in 1..Len(seq) : seq[i] = x

insertion_ordered_results(results) == results

\* Lines 138-148: the results under agent_order's keys, then the others.
ordered_results(results) ==
    LET known == SelectSeq(agent_order, LAMBDA a : MapHas(results, a))
        first == [i \in 1..Len(known) |-> <<known[i], MapGet(results, known[i])>>]
        rest == SelectSeq(results, LAMBDA p : ~InOrder(agent_order, p[1]))
    IN  first \o rest

_create_multi_agent_response(q, results, analysis) ==
    LET ordered == ordered_results(results)
        sections == [i \in 1..Len(ordered) |->
                        <<SectionHeading(ordered[i][1])>>
                            \o ordered[i][2].answer \o <<"\n\n">>]
    IN  MultiIntro(q) \o Flatten(sections) \o MultiClosing

NoInfoMessage == "I couldn't find relevant information to answer your query. "

\* Lines 106-113: the response passing one agent's result through.
single_agent_response_primary_type(q, agent_type, result, analysis) ==
    [status |-> "success",
     answer |-> result.answer,
     sources |-> result.sources,
     query |-> q,
     primary_agent |-> analysis.primary_type,
     analysis |-> analysis]

single_agent_response(q, agent_type, result, analysis) ==
    [status |-> "success",
     answer |-> result.answer,
     sources |-> result.sources,
     query |-> q,
     primary_agent |-> agent_type,
     analysis |-> analysis]

\* Line 88: the results with status success, in insertion order.
successful_results(results) == SelectSeq(results, LAMBDA p : p[2].status = "success")

unsuccessful_messages(results) ==
    [i \in 1..Len(results) |->
        IF "message" \in DOMAIN results[i][2] THEN results[i][2].message
        ELSE <<"Unknown error">>]

\* Line 92: the messages of the results with status error.
error_messages(results) ==
    LET failed == SelectSeq(results, LAMBDA p : p[2].status = "error")
    IN  [i \in 1..Len(failed) |->
            IF "message" \in DOMAIN failed[i][2] THEN failed[i][2].message
            ELSE <<"Unknown error">>]

\* Lines 84-131, with status error when an agent reported an error.
_synthesize_responses_error_status(q, analysis, results) ==
    LET successful == successful_results(results)
    IN  IF successful = <<>>
        THEN LET messages == error_messages(results)
             IN  [status |-> IF messages # <<>> THEN "error" ELSE "no_results",
                  message |-> <<NoInfoMessage>> \o
                      (IF messages # <<>>
                       THEN <<"Errors encountered: ">> \o Join(messages, "; ")
                       ELSE <<>>),
                  query |-> q,
                  analysis |-> analysis,
                  agent_results |-> results]
        ELSE IF Len(successful) = 1
        THEN LET agent_type == successful[1][1]
                 result == successful[1][2]
             IN  single_agent_response(q, agent_type, result, analysis)
        ELSE LET synthesized_answer ==
                     _create_multi_agent_response(q, successful, analysis)
                 all_sources ==
                     Flatten([i \in 1..Len(successful) |->
                                 IF "sources" \in DOMAIN successful[i][2]
                                 THEN successful[i][2].sources ELSE <<>>])
             IN  [status |-> "success",
                  answer |-> synthesized_answer,
                  sources |-> all_sources,
                  query |-> q,
                  agents_used |-> MapKeys(successful),
                  analysis |-> analysis,
                  multi_agent_response |-> TRUE]

_synthesize_responses(q, analysis, results) ==
    LET successful == successful_results(results)
    IN  IF successful = <<>>
        THEN LET messages == error_messages(results)
             IN  [status |-> "no_results",
                  message |-> <<NoInfoMessage>> \o
                      (IF messages # <<>>
                       THEN <<"Errors encountered: ">> \o Join(messages, "; ")
                       ELSE <<>>),
                  query |-> q,
                  analysis |-> analysis,
                  agent_results |-> results]
        ELSE IF Len(successful) = 1
        THEN LET agent_type == successful[1][1]
                 result == successful[1][2]
             IN  single_agent_response(q, agent_type, result, analysis)
        ELSE LET synthesized_answer ==
                     _create_multi_agent_response(q, successful, analysis)
                 all_sources ==
                     Flatten([i \in 1..Len(successful) |->
                                 IF "sources" \in DOMAIN successful[i][2]
                                 THEN successful[i][2].sources ELSE <<>>])
             IN  [status |-> "success",
                  answer |-> synthesized_answer,
                  sources |-> all_sources,
                  query |-> q,
                  agents_used |-> MapKeys(successful),
                  analysis |-> analysis,
                  multi_agent_response |-> TRUE]

SupervisorError(e, q) ==
    [status |-> "error", message |-> <<"Supervisor error: ", e>>, query |-> q]

\* What routing left in the result map (empty when the request failed first).
Supervisor_agent_results(q, oracle) ==
    IF q = NoneQuestion THEN <<>>
    ELSE LET routed == _route_to_agents(q, QueryAnalyzer_process_query(q), oracle)
         IN  IF routed.raised THEN <<>> ELSE routed.value

Supervisor_process_query(q, oracle) ==
    IF q = NoneQuestion
    THEN SupervisorError("'NoneType' object has no attribute 'lower'", q)
    ELSE LET analysis_result == QueryAnalyzer_process_query(q)
             routed == _route_to_agents(q, analysis_result, oracle)
         IN  IF routed.raised THEN SupervisorError(routed.exc, q)
             ELSE _synthesize_responses(q, analysis_result, routed.value)

(***************************************************************************)
(* QAOrchestrator                                                          *)
(***************************************************************************)
\* A dict with no keys.
NoFields == [k \in {} |-> k]

\* source.get(f) is a non-empty string; a non-empty list.
Truthy(r, f) == f \in DOMAIN r /\ r[f] # ""
TruthyList(r, f) == f \in DOMAIN r /\ r[f] # <<>>

Field(r, f, default) == IF f \in DOMAIN r THEN r[f] ELSE default

format_source(source) ==
    LET formatted_source == [document |-> Field(source, "document", "Unknown"),
                             page |-> Field(source, "page", "Unknown"),
                             type |-> Field(source, "type", "text")]
        type == Field(source, "type", "None")
    IN  IF type = "table"
        THEN (IF Truthy(source, "caption")
              THEN [description |-> "Table: " \o source.caption] ELSE NoFields)
             @@ (IF TruthyList(source, "headers") THEN [columns |-> source.headers] ELSE NoFields)
             @@ formatted_source
        ELSE IF type = "image"
        THEN (IF Truthy(source, "caption")
              THEN [description |-> "Image: " \o source.caption] ELSE NoFields)
             @@ (IF Truthy(source, "dimensions") THEN [size |-> source.dimensions] ELSE NoFields)
             @@ formatted_source
        ELSE (IF Truthy(source, "snippet") THEN [preview |-> source.snippet] ELSE NoFields)
             @@ formatted_source

_format_sources_for_user(sources) == [i \in 1..Len(sources) |-> format_source(sources[i])]

NoResultsAnswer ==
    "I couldn't find specific information to answer your question in the available documents."
NoResultsSuggestion ==
    "Try rephrasing your question or asking about different aspects of the documents."
ErrorAnswer == "I encountered an error while processing your question."

_format_user_response_always_high(response) ==
    IF response.status = "success"
    THEN [answer |-> response.answer,
          sources |-> _format_sources_for_user(Field(response, "sources", <<>>)),
          confidence |-> "high"]
    ELSE IF response.status = "no_results"
    THEN [answer |-> NoResultsAnswer, suggestion |-> NoResultsSuggestion, sources |-> <<>>]
    ELSE [answer |-> ErrorAnswer,
          error |-> Field(response, "message", <<"Unknown error">>),
          sources |-> <<>>]

_format_user_response(response) ==
    IF response.status = "success"
    THEN (IF "analysis" \in DOMAIN response
          THEN [query_type |-> Field(response.analysis, "primary_type", "unknown"),
                complexity |-> Field(response.analysis, "complexity", "unknown")]
          ELSE NoFields)
         @@ [answer |-> response.answer,
             sources |-> _format_sources_for_user(Field(response, "sources", <<>>)),
             confidence |-> IF Field(response, "multi_agent_response", FALSE)
                            THEN "high" ELSE "medium"]
    ELSE IF response.status = "no_results"
    THEN [answer |-> NoResultsAnswer, suggestion |-> NoResultsSuggestion, sources |-> <<>>]
    ELSE [answer |-> ErrorAnswer,
          error |-> Field(response, "message", <<"Unknown error">>),
          sources |-> <<>>]

conversation_entry_formatted(session_id, question, response, timestamp) ==
    [session_id |-> session_id, question |-> question,
     response |-> _format_user_response(response), timestamp |-> timestamp]

\* The dict built at lines 24-29.
conversation_entry(session_id, question, response, timestamp) ==
    [session_id |-> session_id, question |-> question,
     response |-> response, timestamp |-> timestamp]

history_prepend(history, entry) == <<entry>> \o history

history_append_unless_error(history, entry) ==
    IF entry.response.status = "error" THEN history ELSE Append(history, entry)

history_append_own_session(history, entry) ==
    Append(SelectSeq(history, LAMBDA e : e.session_id = entry.session_id), entry)

\* self.conversation_history.append(conversation_entry)
history_append(history, entry) == Append(history, entry)

\* The list get_conversation_history builds.
history_of(history, session_id) ==
    SelectSeq(history, LAMBDA entry : entry.session_id = session_id)

history_only(history, session_id) ==
    SelectSeq(history, LAMBDA entry : entry.session_id = session_id)

\* The list clear_history builds.
history_without(history, session_id) ==
    SelectSeq(history, LAMBDA entry : entry.session_id # session_id)

\* Exceptions a step inside the try block of ask_question may raise; all are
\* subclasses of Exception.
ExceptionClasses == {"KeyError", "RuntimeError"}
NoFault == [at |-> "none", exc |-> "none"]
Faults == {NoFault} \cup
          {[at |-> a, exc |-> e] : a \in {"supervisor", "append", "format"},
                                   e \in ExceptionClasses}

CatchesKeyErrorOnly(exc) == exc = "KeyError"

\* except Exception
Catches(exc) == exc \in ExceptionClasses

AskError(exc, question) ==
    [status |-> "error",
     message |-> <<"I encountered an error while processing your question: ", exc>>,
     question |-> question]

NoOp == [op |-> "none"]

ask_question(question, session_id, oracle, fault) ==
    LET response == Supervisor_process_query(question, oracle)
        entry == conversation_entry(session_id, question, response, clock)
        appended == fault.at \in {"none", "format"}
        outcome == IF fault.at = "none" THEN Returned(_format_user_response(response))
                   ELSE IF Catches(fault.exc) THEN Returned(AskError(fault.exc, question))
                   ELSE Raised(fault.exc)
    IN  /\ clock < MaxAsks
        /\ conversation_history' =
               IF appended THEN history_append(conversation_history, entry)
               ELSE conversation_history
        /\ clock' = clock + 1
        /\ last_op' = [op |-> "ask", session |-> session_id, question |-> question,
                       oracle |-> oracle, fault |-> fault.at, outcome |-> outcome]
        /\ asked' = [asked EXCEPT ![session_id] =
                        Append(@, [question |-> question, timestamp |-> clock])]
        /\ ask_count' = [ask_count EXCEPT ![session_id] = @ + 1]
        /\ UNCHANGED <<supVars, agentVars, concVars>>

get_conversation_history(session_id) ==
    /\ last_op' = [op |-> "history", session |-> session_id,
                   outcome |-> Returned(history_of(conversation_history, session_id))]
    /\ UNCHANGED <<conversation_history, clock, asked, ask_count, supVars, agentVars, concVars>>

clear_history(session_id) ==
    /\ conversation_history' = history_without(conversation_history, session_id)
    /\ last_op' = [op |-> "clear", session |-> session_id,
                   removed |-> Len(conversation_history) - Len(conversation_history'),
                   repeated |-> last_op.op = "clear" /\ last_op.session = session_id]
    /\ asked' = [asked EXCEPT ![session_id] = <<>>]
    /\ ask_count' = [ask_count EXCEPT ![session_id] = 0]
    /\ UNCHANGED <<clock, supVars, agentVars, concVars>>

(***************************************************************************)
(* Spec: one orchestrator, calls made one after the other.                 *)
(***************************************************************************)
NoResponse == [status |-> "none"]

AskQuestions == {<<>>, <<"What", "figure">>, NoneQuestion}

AllSucceed == [c \in Categories |->
                 CHOOSE r \in AgentOutcomes(c) :
                     r.status = "success" /\ (c = "text" => Len(r.sources) = 2)]
AllFail == [c \in Categories |->
              CHOOSE r \in AgentOutcomes(c) :
                  r.status = (IF c = "image" THEN "no_results" ELSE "error")]
ImageOnly == [c \in Categories |->
                CHOOSE r \in AgentOutcomes(c) :
                    r.status = (IF c = "text" THEN "no_results" ELSE "success")]
AskOracles == {AllSucceed, AllFail, ImageOnly}

IdleSupervisor ==
    /\ query = <<>>
    /\ agent_results = <<>>
    /\ final_response = NoResponse

IdleAgents ==
    /\ query_analysis = NoResponse
    /\ store = NoResponse
    /\ agent_result = NoResponse

IdleThreads ==
    /\ clear_pc = "idle"
    /\ clear_session = "default"
    /\ clear_iter = 0
    /\ clear_acc = <<>>
    /\ ask_pc = "idle"
    /\ ask_entry = NoResponse

Init ==
    /\ conversation_history = <<>>
    /\ clock = 0
    /\ last_op = NoOp
    /\ asked = [s \in Sessions |-> <<>>]
    /\ ask_count = [s \in Sessions |-> 0]
    /\ IdleSupervisor
    /\ IdleThreads
    /\ IdleAgents

Ask == \E q \in AskQuestions, s \in Sessions, o \in AskOracles : ask_question(q, s, o, NoFault)

History == \E s \in Sessions : get_conversation_history(s)

Clear == \E s \in Sessions : clear_history(s)

Next == Ask \/ History \/ Clear

Spec == Init /\ [][Next]_vars

(***************************************************************************)
(* SpecFault: as Spec, and a step inside the try block of ask_question may *)
(* raise.                                                                  *)
(***************************************************************************)
AskFault ==
    /\ clock < MaxFaultAsks
    /\ \E q \in AskQuestions, s \in Sessions, o \in AskOracles, f \in Faults :
           ask_question(q, s, o, f)

NextFault == AskFault \/ History \/ Clear

SpecFault == Init /\ [][NextFault]_vars

(***************************************************************************)
(* SpecProcess: SupervisorAgent.process_query on every question and every  *)
(* combination of agent return values.                                     *)
(***************************************************************************)
IdleOrchestrator ==
    /\ conversation_history = <<>>
    /\ clock = 0
    /\ last_op = NoOp
    /\ asked = [s \in Sessions |-> <<>>]
    /\ ask_count = [s \in Sessions |-> 0]

InitProcess ==
    /\ IdleOrchestrator
    /\ IdleThreads
    /\ IdleAgents
    /\ query \in Questions
    /\ agent_results = <<>>
    /\ final_response = NoResponse

Process ==
    /\ final_response = NoResponse
    /\ \E o \in Oracles :
           /\ agent_results' = Supervisor_agent_results(query, o)
           /\ final_response' = Supervisor_process_query(query, o)
    /\ UNCHANGED <<query, agentVars, orchVars, concVars>>

NextProcess == Process

SpecProcess == InitProcess /\ [][NextProcess]_vars

(***************************************************************************)
(* SpecSynth: _synthesize_responses on result maps built in any insertion  *)
(* order, under the registered categories and one further key.             *)
(***************************************************************************)
SynthKeys == Categories \cup {"general"}

SynthQueries == {<<"What", "table">>}

\* A result that carries no message, as v.get("message", ...) allows for.
BareError == [status |-> "error", sources |-> <<>>]

SynthOutcomes(k) ==
    IF k \in Categories THEN AgentOutcomes(k) \cup {BareError}
    ELSE { [status |-> "success", answer |-> <<"general answer">>, sources |-> <<>>],
           [status |-> "error", message |-> <<"general failure">>, sources |-> <<>>] }

InitSynth ==
    /\ IdleOrchestrator
    /\ IdleThreads
    /\ IdleAgents
    /\ query \in SynthQueries
    /\ agent_results = <<>>
    /\ final_response = NoResponse

SynthPut ==
    /\ Len(agent_results) < MaxResults
    /\ \E k \in SynthKeys :
           /\ ~MapHas(agent_results, k)
           /\ \E r \in SynthOutcomes(k) : agent_results' = MapPut(agent_results, k, r)
    /\ final_response' = NoResponse
    /\ UNCHANGED <<query, agentVars, orchVars, concVars>>

SynthRun ==
    /\ final_response = NoResponse
    /\ final_response' =
           _synthesize_responses(query, QueryAnalyzer_process_query(query), agent_results)
    /\ UNCHANGED <<query, agentVars, agent_results, orchVars, concVars>>

NextSynth == SynthPut \/ SynthRun

SpecSynth == InitSynth /\ [][NextSynth]_vars

(***************************************************************************)
(* SpecConc: one clear_history call and one ask_question call running in   *)
(* two threads on the same orchestrator.  The list comprehension of        *)
(* clear_history reads the live list one element at a time and the new     *)
(* list is stored afterwards; list.append is one step.                     *)
(***************************************************************************)
InitialEntries(t) ==
    {conversation_entry(s, <<>>, Supervisor_process_query(<<>>, o), t) :
        s \in Sessions, o \in AskOracles}

RECURSIVE InitialHistories(_)
InitialHistories(n) ==
    IF n = 0 THEN {<<>>}
    ELSE LET shorter == InitialHistories(n - 1)
         IN  shorter \cup {Append(h, e) : h \in {x \in shorter : Len(x) = n - 1},
                                          e \in InitialEntries(n - 1)}

InitConc ==
    /\ conversation_history \in InitialHistories(MaxInitHist)
    /\ clock = Len(conversation_history)
    /\ last_op = NoOp
    /\ asked = [s \in Sessions |->
                   LET h == history_of(conversation_history, s)
                   IN  [i \in 1..Len(h) |->
                           [question |-> h[i].question, timestamp |-> h[i].timestamp]]]
    /\ ask_count = [s \in Sessions |-> Len(history_of(conversation_history, s))]
    /\ IdleSupervisor
    /\ IdleAgents
    /\ clear_pc = "idle"
    /\ clear_session \in Sessions
    /\ clear_iter = 0
    /\ clear_acc = <<>>
    /\ ask_pc = "idle"
    /\ ask_entry = NoResponse

\* ask_question, lines 19-29: the Supervisor call and the entry.
AskStart ==
    /\ ask_pc = "idle"
    /\ \E q \in AskQuestions, s \in Sessions, o \in AskOracles :
           ask_entry' = conversation_entry(s, q, Supervisor_process_query(q, o), clock)
    /\ clock' = clock + 1
    /\ ask_pc' = "append"
    /\ UNCHANGED <<conversation_history, last_op, asked, ask_count, supVars, agentVars,
                   clear_pc, clear_session, clear_iter, clear_acc>>

\* ask_question, line 31.
AskAppend ==
    /\ ask_pc = "append"
    /\ conversation_history' = history_append(conversation_history, ask_entry)
    /\ ask_pc' = "format"
    /\ UNCHANGED <<clock, last_op, asked, ask_count, supVars, agentVars, ask_entry,
                   clear_pc, clear_session, clear_iter, clear_acc>>

\* ask_question, lines 34-36.
AskReturn ==
    /\ ask_pc = "format"
    /\ last_op' = [op |-> "ask", session |-> ask_entry.session_id,
                   question |-> ask_entry.question, fault |-> "none",
                   outcome |-> Returned(_format_user_response(ask_entry.response))]
    /\ ask_pc' = "done"
    /\ UNCHANGED <<conversation_history, clock, asked, ask_count, supVars, agentVars, ask_entry,
                   clear_pc, clear_session, clear_iter, clear_acc>>

\* clear_history, line 53: the iterator over self.conversation_history is made.
ClearStart ==
    /\ clear_pc = "idle"
    /\ clear_pc' = "iter"
    /\ clear_iter' = 1
    /\ clear_acc' = <<>>
    /\ UNCHANGED <<orchVars, supVars, agentVars, clear_session, ask_pc, ask_entry>>

\* clear_history, lines 53-54: one turn of the comprehension.
ClearIter ==
    /\ clear_pc = "iter"
    /\ IF clear_iter <= Len(conversation_history)
       THEN LET entry == conversation_history[clear_iter]
            IN  /\ clear_acc' = IF entry.session_id # clear_session
                                THEN Append(clear_acc, entry) ELSE clear_acc
                /\ clear_iter' = clear_iter + 1
                /\ clear_pc' = "iter"
       ELSE /\ clear_pc' = "assign"
            /\ UNCHANGED <<clear_iter, clear_acc>>
    /\ UNCHANGED <<orchVars, supVars, agentVars, clear_session, ask_pc, ask_entry>>

\* clear_history, line 52: the new list is stored.
ClearAssign ==
    /\ clear_pc = "assign"
    /\ conversation_history' = clear_acc
    /\ clear_pc' = "done"
    /\ UNCHANGED <<clock, last_op, asked, ask_count, supVars, agentVars,
                   clear_session, clear_iter, clear_acc, ask_pc, ask_entry>>

NextConc == AskStart \/ AskAppend \/ AskReturn \/ ClearStart \/ ClearIter \/ ClearAssign

SpecConc == InitConc /\ [][NextConc]_vars

(***************************************************************************)
(* SpecRoute: process_query from its routing step on (lines 46-59), on     *)
(* analyses whose category list holds any of the registered categories and *)
(* one category no agent is registered for, in any order.                  *)
(***************************************************************************)
MaxTypes == 3         \* longest category list handed to routing

NoRepeat(seq) == \A i, j \in 1..Len(seq) : seq[i] = seq[j] => i = j

RouteTypes == {qt \in SeqsUpTo(SynthKeys, MaxTypes) : NoRepeat(qt)}

\* process_query, lines 46-59: routing, synthesis and the except clause.
Supervisor_dispatch(q, analysis_result, oracle) ==
    LET routed == _route_to_agents(q, analysis_result, oracle)
    IN  IF routed.raised THEN SupervisorError(routed.exc, q)
        ELSE _synthesize_responses(q, analysis_result, routed.value)

InitRoute ==
    /\ IdleOrchestrator
    /\ IdleThreads
    /\ query \in SynthQueries
    /\ query_analysis \in
           {Returned([QueryAnalyzer_process_query(query) EXCEPT !.query_types = qt]) :
                qt \in RouteTypes}
    /\ store = NoResponse
    /\ agent_result = NoResponse
    /\ agent_results = <<>>
    /\ final_response = NoResponse

Route ==
    /\ final_response = NoResponse
    /\ \E o \in Oracles :
           LET routed == _route_to_agents(query, query_analysis.value, o)
           IN  /\ agent_results' = (IF routed.raised THEN <<>> ELSE routed.value)
               /\ final_response' = Supervisor_dispatch(query, query_analysis.value, o)
    /\ UNCHANGED <<query, agentVars, orchVars, concVars>>

NextRoute == Route

SpecRoute == InitRoute /\ [][NextRoute]_vars

(***************************************************************************)
(* SpecAnalyze: QueryAnalyzer.process_query on every question.             *)
(***************************************************************************)
\* The call as its caller sees it: query.lower() (line 40) raises on a
\* question that is not a string, nothing else in the method can raise.
QueryAnalyzer_call(q) ==
    IF q = NoneQuestion THEN Raised("'NoneType' object has no attribute 'lower'")
    ELSE Returned(QueryAnalyzer_process_query(q))

InitAnalyze ==
    /\ IdleOrchestrator
    /\ IdleThreads
    /\ IdleAgents
    /\ query \in Questions
    /\ agent_results = <<>>
    /\ final_response = NoResponse

Analyze ==
    /\ query_analysis = NoResponse
    /\ query_analysis' = QueryAnalyzer_call(query)
    /\ UNCHANGED <<store, agent_result, supVars, orchVars, concVars>>

NextAnalyze == Analyze

SpecAnalyze == InitAnalyze /\ [][NextAnalyze]_vars

(***************************************************************************)
(* TextRAGAgent (text_rag_agent.py).  The vector index answers a query     *)
(* with at most top_k hits, nearest first or not: the agent does not rely  *)
(* on their order.  Distances and similarities are counted in units of     *)
(* 1/10000; 1 - distance is taken as exact.                                *)
(***************************************************************************)
MaxHits == 5          \* most hits the vector index returns for one query

top_k == 5
One == 10000
RoundUnit == 10

\* Distances the index reports: two that round to the same similarity at 3
\* decimals and one further away.
Distances == {0, 4, 3000}

\* (document_id, page_number) pairs the index metadata can carry.
HitKeys == {<<1, 1>>, <<2, 1>>}

\* The Document rows: document 2 has none.
Documents == <<"a.pdf">>

\* results['documents'][0][i]: the i-th stored text the index returned.
Contents == <<"c1", "c2", "c3", "c4", "c5">>

\* Where a request of the text agent can fail: the embedding call (line 60),
\* the index query (line 62), a storage read (lines 77-86) and the steps after
\* retrieval (lines 35-38).
TextFaults == {"none", "embedding", "index", "storage", "answer"}

IndexResults ==
    {[i \in 1..Len(h) |->
         [content |-> Contents[i],
          metadata |-> [document_id |-> h[i][1][1], page_number |-> h[i][1][2],
                        block_type |-> "paragraph"],
          distance |-> h[i][2]]] :
        h \in {s \in SeqsUpTo(HitKeys \X Distances, MaxHits) : Len(s) <= top_k}}

\* Lines 78-81 with either condition enough.
text_block_of_any_page(st, metadata) ==
    \E key \in st.text_blocks : key[1] = metadata.document_id \/ key[2] = metadata.page_number

\* Lines 78-81: a TextBlock of that document and page exists.
text_block_found(st, metadata) ==
    <<metadata.document_id, metadata.page_number>> \in st.text_blocks

\* Lines 88-95.
chunk_of(hit) ==
    [content |-> hit.content,
     metadata |-> hit.metadata,
     similarity_score |-> One - hit.distance,
     document_name |-> IF hit.metadata.document_id \in DOMAIN Documents
                       THEN Documents[hit.metadata.document_id] ELSE "Unknown",
     page_number |-> hit.metadata.page_number,
     block_type |-> hit.metadata.block_type]

\* list.sort(key=similarity_score, reverse=True): descending and stable.
RECURSIVE insert_before_equal(_, _)
insert_before_equal(sorted, x) ==
    IF sorted = <<>> THEN <<x>>
    ELSE IF Head(sorted).similarity_score > x.similarity_score
         THEN <<Head(sorted)>> \o insert_before_equal(Tail(sorted), x)
         ELSE <<x>> \o sorted

RECURSIVE insert_after_equal(_, _)
insert_after_equal(sorted, x) ==
    IF sorted = <<>> THEN <<x>>
    ELSE IF Head(sorted).similarity_score >= x.similarity_score
         THEN <<Head(sorted)>> \o insert_after_equal(Tail(sorted), x)
         ELSE <<x>> \o sorted

RECURSIVE sort_by_similarity(_)
sort_by_similarity(chunks) ==
    IF chunks = <<>> THEN <<>>
    ELSE insert_after_equal(sort_by_similarity(SubSeq(chunks, 1, Len(chunks) - 1)),
                            chunks[Len(chunks)])

\* Lines 56-105: every exception is caught and gives the empty list.
_retrieve_relevant_texts(st) ==
    IF st.fault \in {"embedding", "index", "storage"} THEN <<>>
    ELSE LET kept == SelectSeq(st.hits, LAMBDA hit : text_block_found(st, hit.metadata))
         IN  sort_by_similarity([i \in 1..Len(kept) |-> chunk_of(kept[i])])

\* Lines 107-129, for contents of at most 200 characters.
_generate_answer(q, relevant_chunks) ==
    LET top == SubSeq(relevant_chunks, 1, IF Len(relevant_chunks) < 3
                                          THEN Len(relevant_chunks) ELSE 3)
        passages == [i \in 1..Len(top) |->
                        <<ToString(i), ". From ", top[i].document_name, " (Page ",
                          ToString(top[i].page_number), "):\n   ", top[i].content,
                          "...\n\n">>]
    IN  <<"Based on the documents, here's what I found:\n\n">> \o Flatten(passages)
            \o <<"This information addresses your query: '">> \o q \o <<"'">>

\* round(x, 3), for values that are not half-way between two thousandths.
round3(x) == ((x + (RoundUnit \div 2)) \div RoundUnit) * RoundUnit

\* Lines 131-142, for contents of at most 150 characters.
_format_sources(chunks) ==
    [i \in 1..Len(chunks) |->
        [document |-> chunks[i].document_name,
         page |-> chunks[i].page_number,
         type |-> chunks[i].block_type,
         similarity |-> round3(chunks[i].similarity_score),
         snippet |-> chunks[i].content]]

\* Lines 19-54.
TextRAGAgent_call(q, st) ==
    LET relevant_chunks == _retrieve_relevant_texts(st)
    IN  IF relevant_chunks = <<>>
        THEN [status |-> "no_results",
              message |-> <<"No relevant text found for your query.">>,
              sources |-> <<>>]
        ELSE IF st.fault = "answer"
        THEN [status |-> "error",
              message |-> <<"Error processing query: ", "'NoneType' object is not subscriptable">>,
              sources |-> <<>>]
        ELSE [status |-> "success",
              answer |-> _generate_answer(q, relevant_chunks),
              sources |-> _format_sources(relevant_chunks),
              retrieved_chunks |-> Len(relevant_chunks),
              agent_type |-> "text_rag"]

\* A failure happens only at a step the request reaches: storage is read once
\* per hit, the answer is built only from hits that were kept.
FaultHappens(st) ==
    /\ st.fault = "storage" => st.hits # <<>>
    /\ st.fault = "answer" =>
           \E i \in 1..Len(st.hits) : text_block_found(st, st.hits[i].metadata)

TextStores ==
    {st \in [hits : IndexResults, text_blocks : SUBSET HitKeys, fault : TextFaults] :
        FaultHappens(st)}

InitText ==
    /\ IdleOrchestrator
    /\ IdleThreads
    /\ IdleSupervisor
    /\ query_analysis = NoResponse
    /\ store \in TextStores
    /\ agent_result = NoResponse

TextRun ==
    /\ agent_result = NoResponse
    /\ \E q \in SynthQueries : agent_result' = TextRAGAgent_call(q, store)
    /\ UNCHANGED <<query_analysis, store, supVars, orchVars, concVars>>

NextText == TextRun

SpecText == InitText /\ [][NextText]_vars

(***************************************************************************)
(* TableAnalysisAgent (table_analysis_agent.py).  A cell is a number       *)
(* [num |-> n], a string [str |-> s] or missing (None/NaN).  A DataFrame   *)
(* is its column names and its rows, every row as long as the columns.     *)
(***************************************************************************)
MaxTables == 2        \* most TableData rows in storage
MaxTableWords == 2    \* longest question handed to the table agent, in words

MaxRetained == 5

None == [none |-> TRUE]
Num(n) == [num |-> n]
Str(s) == [str |-> s]

\* Words of the questions put to the table agent: triggers of the sum,
\* average, count, maximum and minimum groups, a word that merely contains a
\* trigger ("summary" contains "sum"), the two words of "how many", and a
\* word with no trigger.
TableVocabulary ==
    {"Total", "average", "count", "summary", "highest", "minimum", "rows", "how", "many"}

TableQuestions == SeqsUpTo(TableVocabulary, MaxTableWords)

\* Keywords that are substrings of a lower-cased word.
KeywordsIn(w) ==
    CASE w = "summary" -> {"sum"}
      [] w = "minimum" -> {"minimum", "min"}
      [] w = "maximum" -> {"maximum", "max"}
      [] w = "totals" -> {"totals", "total"}
      [] w = "figure" -> {"figure", "fig"}
      [] OTHER -> {w}

\* Keyword words a lower-cased word ends with, and starts with.
SuffixesOf(w) == CASE w = "show" -> {"show", "how"} [] OTHER -> {w}
PrefixesOf(w) == CASE w = "often" -> {"often", "of"} [] w = "21" -> {"21", "2"} [] OTHER -> {w}

\* keyword in query_lower, for a keyword of one word or of two words: a
\* substring test on the question string.
occurs_in(keyword, words) ==
    IF Len(keyword) = 1
    THEN \E i \in 1..Len(words) : keyword[1] \in KeywordsIn(words[i])
    ELSE \E i \in 1..(Len(words) - 1) :
             keyword[1] \in SuffixesOf(words[i]) /\ keyword[2] \in PrefixesOf(words[i + 1])

\* Lines 139-152, with average tested before sum.
analysis_groups_average_first ==
    << <<"count", {<<"count">>, <<"how", "many">>, <<"number", "of">>}>>,
       <<"average", {<<"average">>, <<"mean">>}>>,
       <<"sum", {<<"sum">>, <<"total">>, <<"add">>}>>,
       <<"maximum", {<<"maximum">>, <<"max">>, <<"highest">>}>>,
       <<"minimum", {<<"minimum">>, <<"min">>, <<"lowest">>}>>,
       <<"list", {<<"list">>, <<"show">>, <<"find">>}>> >>

\* Lines 139-150: the keyword groups in the order they are tested.
analysis_groups ==
    << <<"count", {<<"count">>, <<"how", "many">>, <<"number", "of">>}>>,
       <<"sum", {<<"sum">>, <<"total">>, <<"add">>}>>,
       <<"average", {<<"average">>, <<"mean">>}>>,
       <<"maximum", {<<"maximum">>, <<"max">>, <<"highest">>}>>,
       <<"minimum", {<<"minimum">>, <<"min">>, <<"lowest">>}>>,
       <<"list", {<<"list">>, <<"show">>, <<"find">>}>> >>

\* The if/elif chain of lines 139-152.
RECURSIVE select_from(_, _, _)
select_from(groups, i, query_lower) ==
    IF i > Len(groups) THEN "general"
    ELSE IF \E k \in groups[i][2] : occurs_in(k, query_lower) THEN groups[i][1]
    ELSE select_from(groups, i + 1, query_lower)

select_analysis(query_lower) == select_from(analysis_groups, 1, query_lower)

(* pandas.DataFrame *)
DataFrame(columns, rows) == [columns |-> columns, rows |-> rows]

RECURSIVE MaxLen(_)
MaxLen(rows) ==
    IF rows = <<>> THEN 0
    ELSE LET m == MaxLen(Tail(rows))
         IN  IF Len(Head(rows)) > m THEN Len(Head(rows)) ELSE m

\* pd.DataFrame(rows, columns=headers): rows shorter than the longest row are
\* filled with None; ValueError when the longest row and the headers differ
\* in length.
frame_from_rows(rows, headers) ==
    IF rows = <<>> THEN Returned(DataFrame(headers, <<>>))
    ELSE IF MaxLen(rows) # Len(headers)
    THEN Raised("columns passed, passed data had a different number of columns")
    ELSE Returned(DataFrame(headers,
             [i \in 1..Len(rows) |->
                 [j \in 1..Len(headers) |->
                     IF j <= Len(rows[i]) THEN rows[i][j] ELSE None]]))

RECURSIVE KeysOf(_, _)
KeysOf(records, seen) ==
    IF records = <<>> THEN seen
    ELSE LET new == SelectSeq(MapKeys(Head(records)), LAMBDA k : ~InOrder(seen, k))
         IN  KeysOf(Tail(records), seen \o new)

\* pd.DataFrame(list of dicts): the keys in first-seen order, NaN where a
\* record lacks a key.
frame_from_records(records) ==
    LET columns == KeysOf(records, <<>>)
    IN  DataFrame(columns,
            [i \in 1..Len(records) |->
                [j \in 1..Len(columns) |->
                    IF MapHas(records[i], columns[j]) THEN MapGet(records[i], columns[j])
                    ELSE None]])

\* Lines 168-181: None when the payload has no view or the conversion raises.
_convert_to_dataframe(table_data) ==
    IF "data" \in DOMAIN table_data
    THEN frame_from_records(table_data.data)
    ELSE IF "rows" \in DOMAIN table_data /\ "headers" \in DOMAIN table_data
    THEN LET made == frame_from_rows(table_data.rows, table_data.headers)
         IN  IF made.raised THEN None ELSE made.value
    ELSE None

Column(df, j) == [i \in 1..Len(df.rows) |-> df.rows[i][j]]

IsNum(cell) == "num" \in DOMAIN cell

\* df.select_dtypes(include=[np.number]).columns: the columns holding numbers
\* and missing values only.
numeric_columns(df) ==
    SelectSeq([j \in 1..Len(df.columns) |-> j],
              LAMBDA j : /\ \A i \in 1..Len(df.rows) :
                                IsNum(df.rows[i][j]) \/ df.rows[i][j] = None
                         /\ \E i \in 1..Len(df.rows) : IsNum(df.rows[i][j]))

Numbers(cells) ==
    LET nums == SelectSeq(cells, IsNum) IN [i \in 1..Len(nums) |-> nums[i].num]

RECURSIVE SeqSum(_)
SeqSum(ns) == IF ns = <<>> THEN 0 ELSE Head(ns) + SeqSum(Tail(ns))

SeqMax(ns) == CHOOSE n \in {ns[i] : i \in 1..Len(ns)} : \A i \in 1..Len(ns) : ns[i] <= n
SeqMin(ns) == CHOOSE n \in {ns[i] : i \in 1..Len(ns)} : \A i \in 1..Len(ns) : n <= ns[i]

ColumnNames(df, js) == Join([i \in 1..Len(js) |-> <<df.columns[js[i]]>>], ", ")
(* The analysis operators, lines 183-269. *)
_count_analysis(df) ==
    [analysis_type |-> "count",
     total_rows |-> Len(df.rows),
     total_columns |-> Len(df.columns),
     summary |-> <<"This table contains ", ToString(Len(df.rows)), " rows and ",
                   ToString(Len(df.columns)), " columns.">>]

_sum_analysis(df) ==
    LET cols == numeric_columns(df)
    IN  IF Len(cols) > 0
        THEN [analysis_type |-> "sum",
              numeric_sums |-> [i \in 1..Len(cols) |->
                  <<df.columns[cols[i]], SeqSum(Numbers(Column(df, cols[i])))>>],
              summary |-> <<"Sums calculated for numeric columns: ">> \o ColumnNames(df, cols)]
        ELSE [analysis_type |-> "sum",
              summary |-> <<"No numeric columns found for sum calculation.">>]

\* A mean is the fraction sum/count over the cells that are not missing.
_average_analysis(df) ==
    LET cols == numeric_columns(df)
    IN  IF Len(cols) > 0
        THEN [analysis_type |-> "average",
              numeric_averages |-> [i \in 1..Len(cols) |->
                  <<df.columns[cols[i]],
                    [num |-> SeqSum(Numbers(Column(df, cols[i]))),
                     den |-> Len(Numbers(Column(df, cols[i])))]>>],
              summary |-> <<"Averages calculated for numeric columns: ">>
                              \o ColumnNames(df, cols)]
        ELSE [analysis_type |-> "average",
              summary |-> <<"No numeric columns found for average calculation.">>]

_max_analysis(df) ==
    LET cols == numeric_columns(df)
    IN  IF Len(cols) > 0
        THEN [analysis_type |-> "maximum",
              numeric_maxima |-> [i \in 1..Len(cols) |->
                  <<df.columns[cols[i]], SeqMax(Numbers(Column(df, cols[i])))>>],
              summary |-> <<"Maximum values found for numeric columns: ">>
                              \o ColumnNames(df, cols)]
        ELSE [analysis_type |-> "maximum",
              summary |-> <<"No numeric columns found for maximum calculation.">>]

\* A minimum operator that gives no result without numeric columns.
_min_analysis_abandon(df) ==
    LET cols == numeric_columns(df)
    IN  IF Len(cols) > 0
        THEN [analysis_type |-> "minimum",
              numeric_minima |-> [i \in 1..Len(cols) |->
                  <<df.columns[cols[i]], SeqMin(Numbers(Column(df, cols[i])))>>],
              summary |-> <<"Minimum values found for numeric columns: ">>
                              \o ColumnNames(df, cols)]
        ELSE None

_min_analysis(df) ==
    LET cols == numeric_columns(df)
    IN  IF Len(cols) > 0
        THEN [analysis_type |-> "minimum",
              numeric_minima |-> [i \in 1..Len(cols) |->
                  <<df.columns[cols[i]], SeqMin(Numbers(Column(df, cols[i])))>>],
              summary |-> <<"Minimum values found for numeric columns: ">>
                              \o ColumnNames(df, cols)]
        ELSE [analysis_type |-> "minimum",
              summary |-> <<"No numeric columns found for minimum calculation.">>]

_list_analysis(df) ==
    [analysis_type |-> "list",
     columns |-> df.columns,
     sample_data |-> SubSeq(df.rows, 1, IF Len(df.rows) < 5 THEN Len(df.rows) ELSE 5),
     summary |-> <<"Table has columns: ">>
                     \o ColumnNames(df, [j \in 1..Len(df.columns) |-> j])]

\* df.dtypes: int64 for numbers, float64 for numbers with missing values.
dtype(df, j) ==
    IF Len(df.rows) > 0 /\ \A i \in 1..Len(df.rows) : IsNum(df.rows[i][j]) THEN "int64"
    ELSE IF InOrder(numeric_columns(df), j) THEN "float64"
    ELSE "object"

_general_analysis(df) ==
    [analysis_type |-> "general",
     shape |-> [rows |-> Len(df.rows), columns |-> Len(df.columns)],
     columns |-> df.columns,
     data_types |-> [j \in 1..Len(df.columns) |-> <<df.columns[j], dtype(df, j)>>],
     summary |-> <<"General table information: ", ToString(Len(df.rows)), " rows, ",
                   ToString(Len(df.columns)), " columns">>]

run_analysis(analysis_type, df) ==
    CASE analysis_type = "count" -> _count_analysis(df)
      [] analysis_type = "sum" -> _sum_analysis(df)
      [] analysis_type = "average" -> _average_analysis(df)
      [] analysis_type = "maximum" -> _max_analysis(df)
      [] analysis_type = "minimum" -> _min_analysis(df)
      [] analysis_type = "list" -> _list_analysis(df)
      [] OTHER -> _general_analysis(df)

\* x or default, for a string and for a list.
OrDefault(x, default) == IF x = "" THEN default ELSE x

\* Lines 122-166: None for an empty payload and for a payload that does not
\* convert; otherwise the selected operator's result with the table's
\* document, page, caption and headers.
_analyze_table(q, table_info) ==
    LET table_data == table_info.table_data
    IN  IF DOMAIN table_data.table_data = {} THEN None
        ELSE LET df == _convert_to_dataframe(table_data.table_data)
             IN  IF df = None THEN None
                 ELSE LET result == run_analysis(select_analysis(lower(q)), df)
                      IN  IF result = None THEN None
                          ELSE [document_name |-> table_info.document,
                                page_number |-> table_data.page_number,
                                table_caption |-> OrDefault(table_data.caption, "No caption"),
                                table_headers |-> table_data.headers]
                               @@ result

\* Lines 81-102: +1 per keyword found in the caption, +2 per keyword found in
\* the joined headers, +1 per keyword found in the serialized payload; the
\* table record says how many keywords each of the three texts contains.
\* The lower-cased words of a stored caption.
WordsOf(text) ==
    CASE text = "Sales totals" -> {"sales", "totals"}
      [] text = "Average sales" -> {"average", "sales"}
      [] text = "Stock count" -> {"stock", "count"}
      [] text = "Minimum names" -> {"minimum", "names"}
      [] text = "Sales summary" -> {"sales", "summary"}
      [] text = "Prices" -> {"prices"}
      [] text = "Other" -> {"other"}
      [] OTHER -> {}

\* keyword in text, for a text of the given words: a keyword holds no
\* separator, so it occurs in the text when it occurs in one of the words.
keyword_in(keyword, words) ==
    \E w \in words : keyword = w \/ keyword \in KeywordsIn(w)

\* The number of keywords, repeated ones counted again, that occur in a text.
CountIn(keywords, words) ==
    Cardinality({i \in 1..Len(keywords) : keyword_in(keywords[i], words)})

CellWords(cells) ==
    {cells[i].str : i \in {j \in 1..Len(cells) : "str" \in DOMAIN cells[j]}}

\* The words of json.dumps(table_data).lower(): the keys of the payload, the
\* header names, the keys of the records and the cells that are strings.
payload_words(table_data) ==
    DOMAIN table_data
        \cup (IF "headers" \in DOMAIN table_data
              THEN {LowerWord(table_data.headers[i]) : i \in 1..Len(table_data.headers)}
              ELSE {})
        \cup (IF "rows" \in DOMAIN table_data
              THEN UNION {CellWords(table_data.rows[i]) : i \in 1..Len(table_data.rows)}
              ELSE {})
        \cup (IF "data" \in DOMAIN table_data
              THEN UNION {{table_data.data[i][j][1] : j \in 1..Len(table_data.data[i])}
                             \cup CellWords([j \in 1..Len(table_data.data[i]) |->
                                                table_data.data[i][j][2]])
                          : i \in 1..Len(table_data.data)}
              ELSE {})

\* Lines 81-102, with +1 for a keyword in the headers.
relevance_score_flat(keywords, table) ==
    (IF table.caption # "" THEN CountIn(keywords, WordsOf(table.caption)) ELSE 0)
        + (IF table.headers # <<>>
           THEN CountIn(keywords, {LowerWord(table.headers[i]) : i \in 1..Len(table.headers)})
           ELSE 0)
        + (IF DOMAIN table.table_data # {}
           THEN CountIn(keywords, payload_words(table.table_data)) ELSE 0)

relevance_score(keywords, table) ==
    (IF table.caption # "" THEN CountIn(keywords, WordsOf(table.caption)) ELSE 0)
        + (IF table.headers # <<>>
           THEN 2 * CountIn(keywords, {LowerWord(table.headers[i]) : i \in 1..Len(table.headers)})
           ELSE 0)
        + (IF DOMAIN table.table_data # {}
           THEN CountIn(keywords, payload_words(table.table_data)) ELSE 0)

RECURSIVE insert_by_relevance(_, _)
insert_by_relevance(sorted, x) ==
    IF sorted = <<>> THEN <<x>>
    ELSE IF Head(sorted).relevance_score >= x.relevance_score
         THEN <<Head(sorted)>> \o insert_by_relevance(Tail(sorted), x)
         ELSE <<x>> \o sorted

\* list.sort(key=relevance_score, reverse=True): descending and stable.
RECURSIVE sort_by_relevance(_)
sort_by_relevance(tables) ==
    IF tables = <<>> THEN <<>>
    ELSE insert_by_relevance(sort_by_relevance(SubSeq(tables, 1, Len(tables) - 1)),
                             tables[Len(tables)])

\* Lines 70-120: an exception gives the empty list.  The context is the
\* analysis of the question (supervisor_agent.py 45 and 73).
_find_relevant_tables(q, st) ==
    IF st.fault = "storage" THEN <<>>
    ELSE LET keywords == QueryAnalyzer_process_query(q).keywords
             scored == SelectSeq(st.tables, LAMBDA t : relevance_score(keywords, t) > 0)
             relevant_tables ==
                 sort_by_relevance([i \in 1..Len(scored) |->
                     [table_data |-> scored[i],
                      document |-> scored[i].document,
                      relevance_score |-> relevance_score(keywords, scored[i])]])
         IN  SubSeq(relevant_tables, 1,
                    IF Len(relevant_tables) < MaxRetained THEN Len(relevant_tables)
                    ELSE MaxRetained)

\* Lines 271-280.
_combine_table_results(q, results) ==
    <<"Based on the table analysis for your query '">> \o q \o <<"':\n\n">>
        \o Flatten([i \in 1..Len(results) |->
               <<"Table ", ToString(i), " (from ", results[i].document_name, ", Page ",
                 ToString(results[i].page_number), "):\n",
                 "Caption: ", results[i].table_caption, "\n", "Analysis: ">>
                   \o results[i].summary \o <<"\n\n">>])

\* Lines 282-298.
_format_table_sources(tables) ==
    [i \in 1..Len(tables) |->
        [type |-> "table",
         document |-> tables[i].document,
         page |-> tables[i].table_data.page_number,
         caption |-> OrDefault(tables[i].table_data.caption, "No caption"),
         headers |-> tables[i].table_data.headers,
         relevance |-> tables[i].relevance_score]]

\* Lines 36-41: the results of the tables whose analysis gave one.
analysis_results(q, relevant_tables) ==
    LET results == [i \in 1..Len(relevant_tables) |-> _analyze_table(q, relevant_tables[i])]
    IN  SelectSeq(results, LAMBDA r : r # None)

\* Lines 21-68.
TableAnalysisAgent_call(q, st) ==
    LET relevant_tables == _find_relevant_tables(q, st)
    IN  IF relevant_tables = <<>>
        THEN [status |-> "no_results",
              message |-> <<"No relevant tables found for your query.">>,
              sources |-> <<>>]
        ELSE IF analysis_results(q, relevant_tables) = <<>>
        THEN [status |-> "no_results",
              message |-> <<"Could not extract meaningful information from the tables.">>,
              sources |-> <<>>]
        ELSE IF st.fault = "answer"
        THEN [status |-> "error",
              message |-> <<"Error analyzing tables: ", "failure building the answer">>,
              sources |-> <<>>]
        ELSE [status |-> "success",
              answer |-> _combine_table_results(q, analysis_results(q, relevant_tables)),
              sources |-> _format_table_sources(relevant_tables),
              tables_analyzed |-> Len(relevant_tables),
              agent_type |-> "table_analysis"]
(* The TableData rows storage can hold.  document is the file name of the
   table's Document row, "Unknown" when there is none; caption "" stands for
   no caption. *)
NameQtyRecords ==
    << << <<"name", Str("a")>>, <<"qty", Num(3)>> >>,
       << <<"name", Str("b")>>, <<"qty", Num(5)>> >> >>

TableRow(caption, headers, page_number, table_data, document) ==
    [caption |-> caption, headers |-> headers, page_number |-> page_number,
     table_data |-> table_data, document |-> document]

\* Row-of-maps view with a numeric column.
SalesRecords ==
    TableRow("Sales totals", <<"name", "qty">>, 3, [data |-> NameQtyRecords], "a.pdf")

\* Row-of-maps view without a numeric column, no caption, no headers.
NamesRecords ==
    TableRow("", <<>>, 1, [data |-> << << <<"name", Str("many")>> >> >>], "Unknown")

\* Headers and rows, every row as long as the headers.
SalesRows ==
    TableRow("Average sales", <<"name", "qty">>, 2,
             [headers |-> <<"name", "qty">>,
              rows |-> << <<Str("a"), Num(3)>>, <<Str("b"), Num(5)>> >>],
             "a.pdf")

\* Ragged: one row shorter than the headers, the longest as long as them.
ShortRows ==
    TableRow("Stock count", <<"name", "qty">>, 4,
             [headers |-> <<"name", "qty">>,
              rows |-> << <<Str("a"), Num(3)>>, <<Str("b")>> >>],
             "a.pdf")

\* Ragged: one row longer than the headers.
LongRows ==
    TableRow("Prices", <<"name", "qty">>, 5,
             [headers |-> <<"name", "qty">>,
              rows |-> << <<Str("a"), Num(3)>>, <<Str("b"), Num(5), Str("x")>> >>],
             "b.pdf")

\* Ragged: every row shorter than the headers.
AllShortRows ==
    TableRow("", <<"name", "Total">>, 6,
             [headers |-> <<"name", "Total">>, rows |-> << <<Str("a")>> >>],
             "b.pdf")

\* Headers and rows without a numeric column.
NamesRows ==
    TableRow("Minimum names", <<"name">>, 7,
             [headers |-> <<"name">>, rows |-> << <<Str("a")>>, <<Str("b")>> >>],
             "a.pdf")

\* No payload.
EmptyPayload == TableRow("Sales summary", <<"name">>, 8, NoFields, "a.pdf")

\* A table none of the keywords occurs in.
Irrelevant ==
    TableRow("Other", <<"name", "qty">>, 9,
             [data |-> << << <<"name", Str("a")>>, <<"qty", Num(3)>> >> >>],
             "a.pdf")

TableRows == {SalesRecords, NamesRecords, SalesRows, ShortRows, LongRows, AllShortRows,
              NamesRows, EmptyPayload, Irrelevant}

\* Where a request of the table agent can fail: the storage read (lines
\* 73-105) and the steps after the analysis (lines 51-52).
TableFaults == {"none", "storage", "answer"}

TableFaultHappens(q, st) ==
    st.fault = "answer" =>
        analysis_results(q, _find_relevant_tables(q, [st EXCEPT !.fault = "none"])) # <<>>

TableStores == [tables : SeqsUpTo(TableRows, MaxTables), fault : TableFaults]

(***************************************************************************)
(* SpecTable: TableAnalysisAgent.process_query on every question and every *)
(* content of storage.                                                     *)
(***************************************************************************)
InitTable ==
    /\ IdleOrchestrator
    /\ IdleThreads
    /\ query \in TableQuestions
    /\ agent_results = <<>>
    /\ final_response = NoResponse
    /\ query_analysis = NoResponse
    /\ store \in {st \in TableStores : TableFaultHappens(query, st)}
    /\ agent_result = NoResponse

TableRun ==
    /\ agent_result = NoResponse
    /\ agent_result' = TableAnalysisAgent_call(query, store)
    /\ UNCHANGED <<query_analysis, store, supVars, orchVars, concVars>>

NextTable == TableRun

SpecTable == InitTable /\ [][NextTable]_vars

(***************************************************************************)
(* SpecRelevance: TableAnalysisAgent.process_query on stores with more     *)
(* relevant tables than the agent retains.                                 *)
(***************************************************************************)
MaxStored == 6        \* TableData rows in storage

\* Tables scoring 4, 1 and 1 for "Total rows", 1, 0 and 2 for "average rows"
\* and 6, 2 and 0 for "Total Total".
RelevanceRows == {AllShortRows, SalesRecords, SalesRows}

RelevanceQuestions == {<<"Total", "rows">>, <<"average", "rows">>, <<"Total", "Total">>}

InitRelevance ==
    /\ IdleOrchestrator
    /\ IdleThreads
    /\ query \in RelevanceQuestions
    /\ agent_results = <<>>
    /\ final_response = NoResponse
    /\ query_analysis = NoResponse
    /\ store \in [tables : SeqsUpTo(RelevanceRows, MaxStored), fault : {"none"}]
    /\ agent_result = NoResponse

NextRelevance == TableRun

SpecRelevance == InitRelevance /\ [][NextRelevance]_vars

(***************************************************************************)
(* ImageAnalysisAgent                                                      *)
(***************************************************************************)
MaxImages == 6        \* ImageData rows in storage
MaxImageWords == 2    \* words in a question to the image agent

\* A figure-reference word, an image trigger that is none, and the two words
\* of a page entity.
ImageVocabulary == {"figure", "chart", "page", "2"}

ImageQuestions == SeqsUpTo(ImageVocabulary, MaxImageWords)

\* The lower-cased words of a stored caption or alt text.
TextWords(text) ==
    CASE text = "Chart on page 21" -> <<"chart", "on", "page", "21">>
      [] text = "chart" -> <<"chart">>
      [] OTHER -> <<>>

\* Line 100.
figure_references == {"figure", "fig", "image", "picture"}

MaxImagesRetained == 5

\* Lines 78-101, without the bonus of lines 100-101.
image_relevance_score_no_bonus(q, keywords, entities, image) ==
    (IF image.caption # ""
     THEN 2 * Cardinality({i \in 1..Len(keywords) :
                              occurs_in(<<keywords[i]>>, TextWords(image.caption))})
              + 3 * Cardinality({e \in entities : occurs_in(lower(e), TextWords(image.caption))})
     ELSE 0)
        + (IF image.alt_text # ""
           THEN Cardinality({i \in 1..Len(keywords) :
                                occurs_in(<<keywords[i]>>, TextWords(image.alt_text))})
           ELSE 0)

image_relevance_score(q, keywords, entities, image) ==
    (IF image.caption # ""
     THEN 2 * Cardinality({i \in 1..Len(keywords) :
                              occurs_in(<<keywords[i]>>, TextWords(image.caption))})
              + 3 * Cardinality({e \in entities : occurs_in(lower(e), TextWords(image.caption))})
     ELSE 0)
        + (IF image.alt_text # ""
           THEN Cardinality({i \in 1..Len(keywords) :
                                occurs_in(<<keywords[i]>>, TextWords(image.alt_text))})
           ELSE 0)
        + (IF \E ref \in figure_references : occurs_in(<<ref>>, lower(q)) THEN 1 ELSE 0)

\* Lines 66-119: an exception gives the empty list.  The context is the
\* analysis of the question (supervisor_agent.py 45 and 73).
_find_relevant_images(q, st) ==
    IF st.fault = "storage" THEN <<>>
    ELSE LET context == QueryAnalyzer_process_query(q)
             score(image) == image_relevance_score(q, context.keywords, context.entities, image)
             scored == SelectSeq(st.images, LAMBDA image : score(image) > 0)
             relevant_images ==
                 sort_by_relevance([i \in 1..Len(scored) |->
                     [image_data |-> scored[i],
                      document |-> scored[i].document,
                      relevance_score |-> score(scored[i])]])
         IN  SubSeq(relevant_images, 1,
                    IF Len(relevant_images) < MaxImagesRetained THEN Len(relevant_images)
                    ELSE MaxImagesRetained)

\* Lines 122-155: ImageData has no width attribute (document_models.py
\* 64-74), so building the analysis raises AttributeError at line 135 and the
\* except clause returns None.
_analyze_image(q, image_info) == None

\* Lines 33-37: the results of the images whose analysis gave one.
image_analysis_results(q, relevant_images) ==
    LET results == [i \in 1..Len(relevant_images) |-> _analyze_image(q, relevant_images[i])]
    IN  SelectSeq(results, LAMBDA r : r # None)

\* Lines 17-64.  The return of lines 50-56 needs an analysis result.
ImageAnalysisAgent_call(q, st) ==
    LET relevant_images == _find_relevant_images(q, st)
    IN  IF relevant_images = <<>>
        THEN [status |-> "no_results",
              message |-> <<"No relevant images found for your query.">>,
              sources |-> <<>>]
        ELSE [status |-> "no_results",
              message |-> <<"Could not extract meaningful information from the images.">>,
              sources |-> <<>>]

(* The ImageData rows storage can hold; "" stands for no caption and for no
   alt text. *)
ImageRow(caption, alt_text, page_number, image_path, document) ==
    [caption |-> caption, alt_text |-> alt_text, page_number |-> page_number,
     image_path |-> image_path, document |-> document]

CaptionedImage == ImageRow("Chart on page 21", "", 1, "img/1.png", "a.pdf")

AltTextImage == ImageRow("", "chart", 2, "img/2.png", "a.pdf")

BareImage == ImageRow("", "", 3, "img/3.png", "Unknown")

ImageRows == {CaptionedImage, AltTextImage, BareImage}

\* Where the search for images can fail: the storage read (lines 69-70).
ImageFaults == {"none", "storage"}

ImageStores == [images : SeqsUpTo(ImageRows, MaxImages), fault : ImageFaults]

(***************************************************************************)
(* SpecImage: ImageAnalysisAgent.process_query on every question and every *)
(* content of storage.                                                     *)
(***************************************************************************)
InitImage ==
    /\ IdleOrchestrator
    /\ IdleThreads
    /\ query \in ImageQuestions
    /\ agent_results = <<>>
    /\ final_response = NoResponse
    /\ query_analysis = NoResponse
    /\ store \in ImageStores
    /\ agent_result = NoResponse

ImageRun ==
    /\ agent_result = NoResponse
    /\ agent_result' = ImageAnalysisAgent_call(query, store)
    /\ UNCHANGED <<query_analysis, store, supVars, orchVars, concVars>>

NextImage == ImageRun

SpecImage == InitImage /\ [][NextImage]_vars

(***************************************************************************)
(* Properties                                                              *)
(***************************************************************************)
Contains(text, part) ==
    \E i \in 1..(Len(text) + 1 - Len(part)) : SubSeq(text, i, i + Len(part) - 1) = part

EntryCalls(h) ==
    [i \in 1..Len(h) |-> [question |-> h[i].question, timestamp |-> h[i].timestamp]]

RECURSIVE SumOver(_, _)
SumOver(f, S) ==
    IF S = {} THEN 0
    ELSE LET x == CHOOSE x \in S : TRUE IN f[x] + SumOver(f, S \ {x})

LastEntry == conversation_history[Len(conversation_history)]

\* C1: clear(s) removes every entry of session s and no other entry: right
\* after it history(s) is empty and, for every other session t, history(t) is
\* the same sequence as before; the list shrinks by exactly the entries of s.
C1_ClearRemovesExactlyTheSession ==
    [][\A s \in Sessions :
          clear_history(s) =>
              /\ history_of(conversation_history', s) = <<>>
              /\ \A t \in Sessions \ {s} :
                     history_of(conversation_history', t) = history_of(conversation_history, t)
              /\ Len(conversation_history') =
                     Len(conversation_history) - Len(history_of(conversation_history, s))]_vars

\* A clear that removed an entry and left two entries of the other session.
C1_Witness ==
    /\ last_op.op = "clear"
    /\ last_op.removed >= 1
    /\ Len(conversation_history) >= 2

\* C2: for every session s, history(s) is exactly the entries of the ask calls
\* made for s since its last clear, in call order, all of them keyed by s; the
\* value get_conversation_history returns is that sequence.
C2_HistoryInInsertionOrder ==
    /\ \A s \in Sessions :
           LET h == history_of(conversation_history, s)
           IN  /\ EntryCalls(h) = asked[s]
               /\ \A i \in 1..Len(h) : h[i].session_id = s
    /\ last_op.op = "history" =>
           LET h == last_op.outcome.value
           IN  /\ EntryCalls(h) = asked[last_op.session]
               /\ \A i \in 1..Len(h) : h[i].session_id = last_op.session

\* history(s) was read after two asks of s with an ask of another session
\* between them.
C2_Witness ==
    /\ last_op.op = "history"
    /\ Len(last_op.outcome.value) = 2
    /\ \E t \in Sessions \ {last_op.session} :
           /\ Len(asked[t]) = 1
           /\ asked[last_op.session][1].timestamp < asked[t][1].timestamp
           /\ asked[t][1].timestamp < asked[last_op.session][2].timestamp

\* C3: every ask(question, s) appends exactly one entry keyed by s, whatever
\* status the Supervisor returned: the length of history(s) is the number of
\* ask calls for s since the last clear(s), and the list holds nothing else.
C3_OneEntryPerAsk ==
    /\ \A s \in Sessions : Len(history_of(conversation_history, s)) = ask_count[s]
    /\ Len(conversation_history) = SumOver(ask_count, Sessions)

\* One session asked three times, the Supervisor returning success, no_results
\* and error.
C3_Witness ==
    \E s \in Sessions :
        LET h == history_of(conversation_history, s)
        IN  /\ ask_count[s] = 3
            /\ {h[i].response.status : i \in 1..Len(h)} = {"success", "no_results", "error"}

\* C4: ask never raises to its caller: whichever step inside its try block
\* fails (the Supervisor call, the append, the formatting), it returns a
\* value of status error that carries a message and the question.
C4_AskNeverRaises ==
    last_op.op = "ask" =>
        /\ ~last_op.outcome.raised
        /\ last_op.fault # "none" =>
               /\ last_op.outcome.value.status = "error"
               /\ "message" \in DOMAIN last_op.outcome.value
               /\ last_op.outcome.value.question = last_op.question

\* The formatting failed after the entry was appended, and ask returned the
\* error value.
C4_Witness ==
    /\ last_op.op = "ask"
    /\ last_op.fault = "format"
    /\ ~last_op.outcome.raised
    /\ last_op.outcome.value.status = "error"
    /\ conversation_history # <<>>

\* C5: when clear(A) runs concurrently with ask(q, B) for another session B,
\* the entry appended for B is not lost: once both calls are over, history(B)
\* contains it.
C5_ConcurrentAskKept ==
    (clear_pc = "done" /\ ask_pc = "done" /\ ask_entry.session_id # clear_session) =>
        LET h == history_of(conversation_history, ask_entry.session_id)
        IN  \E i \in 1..Len(h) : h[i] = ask_entry

\* C6 (as claimed): the entry recorded by ask holds the formatted response, the
\* payload ask returns, with the session id, the question and a timestamp.
C6_EntryHoldsFormattedResponse ==
    (last_op.op = "ask" /\ conversation_history # <<>>) =>
        /\ LastEntry.response = last_op.outcome.value
        /\ LastEntry.session_id = last_op.session
        /\ LastEntry.question = last_op.question
        /\ LastEntry.timestamp = clock - 1

\* C6 (amended): the entry recorded by ask holds the Supervisor's own result
\* (status and query included), not the formatted payload; what ask returns is
\* the formatting of that stored result; the entry carries the session id, the
\* question and the timestamp of the call.
C6_EntryHoldsSupervisorResponse ==
    last_op.op = "ask" =>
        /\ conversation_history # <<>>
        /\ {"status", "query"} \subseteq DOMAIN LastEntry.response
        /\ LastEntry.response.status \in {"success", "no_results", "error"}
        /\ LastEntry.response.query = last_op.question
        /\ last_op.outcome.value = _format_user_response(LastEntry.response)
        /\ last_op.outcome.value # LastEntry.response
        /\ LastEntry.session_id = last_op.session
        /\ LastEntry.question = last_op.question
        /\ LastEntry.timestamp = clock - 1

\* An ask whose Supervisor result was a multi-agent success.
C6_Witness ==
    /\ last_op.op = "ask"
    /\ LastEntry.response.status = "success"
    /\ "multi_agent_response" \in DOMAIN LastEntry.response
    /\ last_op.outcome.value.confidence = "high"

SuccessKeys ==
    {k \in SynthKeys : MapHas(agent_results, k) /\ MapGet(agent_results, k).status = "success"}

StatusCount(status) ==
    Cardinality({i \in 1..Len(agent_results) : agent_results[i][2].status = status})

\* C7: synthesis with exactly one result of status success among the results
\* returns status success, primary_agent the key of that result, its answer
\* and its sources unchanged, no multi-agent flag, and nothing of the failed
\* agents at the top level (no message, no result map).
C7_SingleSuccessPassedThrough ==
    (final_response # NoResponse /\ Cardinality(SuccessKeys) = 1) =>
        LET k == CHOOSE k \in SuccessKeys : TRUE
            r == MapGet(agent_results, k)
        IN  /\ final_response.status = "success"
            /\ "primary_agent" \in DOMAIN final_response
            /\ final_response.primary_agent = k
            /\ final_response.answer = r.answer
            /\ final_response.sources = r.sources
            /\ "multi_agent_response" \notin DOMAIN final_response
            /\ "message" \notin DOMAIN final_response
            /\ "agent_results" \notin DOMAIN final_response

\* Three results were synthesized: table succeeded, one agent failed with an
\* error and one found nothing.
C7_Witness ==
    /\ final_response # NoResponse
    /\ Len(agent_results) = 3
    /\ SuccessKeys = {"table"}
    /\ StatusCount("error") = 1
    /\ StatusCount("no_results") = 1

Rank(k) == CASE k = "text" -> 1 [] k = "table" -> 2 [] k = "image" -> 3 [] OTHER -> 4

HeadingAt(text, k) == CHOOSE i \in 1..Len(text) : text[i] = SectionHeading(k)

\* C8: synthesis with two or more results of status success returns status
\* success with multi_agent_response = TRUE; the answer holds one section per
\* successful agent and no other, each section its heading followed by the
\* agent's answer, the sections in the order text, table, image, others,
\* whatever the insertion order of the result map.
C8_MultiSuccessSectionsInPriorityOrder ==
    (final_response # NoResponse /\ Cardinality(SuccessKeys) >= 2) =>
        /\ final_response.status = "success"
        /\ "multi_agent_response" \in DOMAIN final_response
        /\ final_response.multi_agent_response = TRUE
        /\ LET answer == final_response.answer
           IN  /\ \A k \in SuccessKeys :
                      Contains(answer, <<SectionHeading(k)>> \o MapGet(agent_results, k).answer)
               /\ Cardinality({i \in 1..Len(answer) :
                                  \E k \in SynthKeys : answer[i] = SectionHeading(k)})
                      = Cardinality(SuccessKeys)
               /\ \A k1, k2 \in SuccessKeys :
                      Rank(k1) < Rank(k2) => HeadingAt(answer, k1) < HeadingAt(answer, k2)

\* Image, table and text succeeded and were put into the map in that order.
C8_Witness ==
    /\ final_response # NoResponse
    /\ MapKeys(agent_results) = <<"image", "table", "text">>
    /\ SuccessKeys = {"image", "table", "text"}

\* C9: synthesis with no result of status success (the empty map included)
\* returns status no_results and the whole result map; its message holds the
\* message of every result of status error, no message of a no_results
\* result, and "; " between the error messages only.
C9_NoSuccessAggregatesErrors ==
    (final_response # NoResponse /\ SuccessKeys = {}) =>
        /\ final_response.status = "no_results"
        /\ final_response.agent_results = agent_results
        /\ LET message == final_response.message
               errors == StatusCount("error")
           IN  /\ message[1] = NoInfoMessage
               /\ errors = 0 => message = <<NoInfoMessage>>
               /\ \A i \in 1..Len(agent_results) :
                      LET r == agent_results[i][2]
                      IN  /\ (r.status = "error" /\ "message" \in DOMAIN r)
                              => Contains(message, r.message)
                          /\ (r.status = "error" /\ "message" \notin DOMAIN r)
                              => Contains(message, <<"Unknown error">>)
                          /\ r.status = "no_results" => ~Contains(message, r.message)
               /\ Cardinality({i \in 1..Len(message) : message[i] = "; "})
                      = IF errors = 0 THEN 0 ELSE errors - 1

\* Two agents failed with an error and a third found nothing.
C9_Witness ==
    /\ final_response # NoResponse
    /\ final_response.status = "no_results"
    /\ StatusCount("error") = 2
    /\ StatusCount("no_results") = 1
    /\ agent_results[1][2].status = "no_results"

SourcesOf(k) ==
    IF MapHas(agent_results, k) /\ MapGet(agent_results, k).status = "success"
    THEN MapGet(agent_results, k).sources
    ELSE <<>>

\* C10: in a multi-agent result of process_query the sources are the text
\* agent's sources, then the table agent's, then the image agent's, each list
\* in its own order, counting only the agents that succeeded.
C10_MergedSourcesInPriorityOrder ==
    (final_response.status = "success" /\ "multi_agent_response" \in DOMAIN final_response) =>
        final_response.sources = SourcesOf("text") \o SourcesOf("table") \o SourcesOf("image")

\* All three agents succeeded: two text sources, one table source, two image
\* sources.
C10_Witness ==
    /\ final_response.status = "success"
    /\ "multi_agent_response" \in DOMAIN final_response
    /\ Len(SourcesOf("text")) = 2
    /\ Len(SourcesOf("table")) = 1
    /\ Len(SourcesOf("image")) = 2

\* C11: during routing a detected category with no registered agent, or whose
\* agent declines it, is skipped: the result map holds exactly the entries of
\* the categories that have an accepting agent, and process_query does not
\* return status error because of the skipped category.
C11_UnregisteredCategorySkipped ==
    final_response # NoResponse =>
        /\ final_response.status # "error"
        /\ MapKeys(agent_results) =
               SelectSeq(query_analysis.value.query_types,
                         LAMBDA t : t \in agents /\ can_handle(t, t))

\* The analysis of a question string has been returned.
Analysed == query_analysis # NoResponse /\ ~query_analysis.raised

\* Number of patterns of a set with a trigger in the question.
PatternsMatched(patterns) ==
    Cardinality({i \in 1..Len(patterns) : re_search(patterns[i], lower(query))})

TableTriggersOnly ==
    /\ query # NoneQuestion
    /\ PatternsMatched(table_patterns) >= 1
    /\ PatternsMatched(text_patterns) = 0
    /\ PatternsMatched(image_patterns) = 0

\* C13 (as stated): every question with at least one table-intent trigger and
\* no text-intent or image-intent trigger gets table among its categories with
\* a score greater than 0.3, and requires_multi_agent is false when table is
\* the only category.
C13_TableTriggerIncludesTable ==
    (Analysed /\ TableTriggersOnly) =>
        LET a == query_analysis.value
        IN  /\ InOrder(a.query_types, "table")
            /\ MapHas(a.confidence_scores, "table")
            /\ MapGet(a.confidence_scores, "table").num * 10
                   > 3 * MapGet(a.confidence_scores, "table").den
            /\ (a.query_types = <<"table">> => a.requires_multi_agent = FALSE)

\* C13 (amended): a question with triggers of at least two of the five
\* table-intent patterns and no text-intent or image-intent trigger gets table
\* as its only category, with a score greater than 0.3 and requires_multi_agent
\* false; a question with triggers of exactly one table-intent pattern (score
\* 0.2) and no other trigger gets the default: categories [text], score 0.5.
C13_TwoTablePatternsIncludeTable ==
    (Analysed /\ TableTriggersOnly) =>
        LET a == query_analysis.value
        IN  IF PatternsMatched(table_patterns) >= 2
            THEN /\ a.query_types = <<"table">>
                 /\ MapKeys(a.confidence_scores) = <<"table">>
                 /\ MapGet(a.confidence_scores, "table").num * 10
                        > 3 * MapGet(a.confidence_scores, "table").den
                 /\ a.primary_type = "table"
                 /\ a.requires_multi_agent = FALSE
            ELSE /\ a.query_types = <<"text">>
                 /\ a.confidence_scores = <<<<"text", [num |-> 1, den |-> 2]>>>>
                 /\ a.requires_multi_agent = FALSE

C13_Witness ==
    /\ Analysed
    /\ query = <<"table", "row">>
    /\ query_analysis.value.query_types = <<"table">>

\* C14: when no category's score exceeds the threshold (the empty string in
\* particular) the analysis is categories [text], primary_type text,
\* confidence score text = 0.5 and requires_multi_agent false.
C14_DefaultsToText ==
    (/\ Analysed
     /\ PatternsMatched(text_patterns) * 10 <= 3 * Len(text_patterns)
     /\ PatternsMatched(table_patterns) * 10 <= 3 * Len(table_patterns)
     /\ PatternsMatched(image_patterns) * 10 <= 3 * Len(image_patterns)) =>
        LET a == query_analysis.value
        IN  /\ a.query_types = <<"text">>
            /\ a.primary_type = "text"
            /\ a.confidence_scores = <<<<"text", [num |-> 1, den |-> 2]>>>>
            /\ a.requires_multi_agent = FALSE

C14_Witness ==
    /\ Analysed
    /\ query = <<"cat", "table">>
    /\ query_analysis.value.query_types = <<"text">>

\* C15 (as stated): analyze never fails on a question string and the returned
\* category list contains the text category.
C15_CategoriesContainText ==
    (query # NoneQuestion /\ query_analysis # NoResponse) =>
        /\ ~query_analysis.raised
        /\ InOrder(query_analysis.value.query_types, "text")

\* C15 (amended): analyze never fails on a question string and the returned
\* category list is never empty; it contains text exactly when a text-intent
\* pattern matched or no category's score exceeds the threshold, so a question
\* with table or image triggers only gets a list without text.
C15_CategoriesNonEmpty ==
    (query # NoneQuestion /\ query_analysis # NoResponse) =>
        /\ ~query_analysis.raised
        /\ query_analysis.value.query_types # <<>>
        /\ InOrder(query_analysis.value.query_types, "text") <=>
               \/ PatternsMatched(text_patterns) >= 1
               \/ /\ PatternsMatched(table_patterns) < 2
                  /\ PatternsMatched(image_patterns) = 0

C15_Witness ==
    /\ Analysed
    /\ query = <<"figure">>
    /\ query_analysis.value.query_types = <<"image">>

ScoreOf(a, t) == MapGet(a.confidence_scores, t)

\* C16: primary_type is an included category whose confidence score no other
\* included category exceeds, and among the included categories that tie for
\* the highest score it is the earliest in the order text, table, image.
C16_PrimaryTypeIsFirstHighest ==
    Analysed =>
        LET a == query_analysis.value
            p == a.primary_type
        IN  /\ InOrder(a.query_types, p)
            /\ \A i \in 1..Len(a.query_types) :
                   LET t == a.query_types[i]
                   IN  /\ ScoreOf(a, t).num * ScoreOf(a, p).den
                              <= ScoreOf(a, p).num * ScoreOf(a, t).den
                       /\ (ScoreOf(a, t).num * ScoreOf(a, p).den
                               = ScoreOf(a, p).num * ScoreOf(a, t).den
                           => Rank(p) <= Rank(t))

C16_Witness ==
    /\ Analysed
    /\ query = <<"What", "figure">>
    /\ query_analysis.value.query_types = <<"text", "image">>
    /\ ScoreOf(query_analysis.value, "text") = ScoreOf(query_analysis.value, "image")
    /\ query_analysis.value.primary_type = "text"

\* C12: a retrieval agent's answer never raises; any internal failure during
\* the request (embedding call, index query, storage read, a later step)
\* yields status error with a message, and status no_results is returned only
\* when retrieval ran without failure and found no usable evidence.
C12_FailureYieldsError ==
    agent_result # NoResponse =>
        /\ store.fault # "none" =>
               /\ agent_result.status = "error"
               /\ agent_result.message # <<>>
        /\ agent_result.status = "no_results" => store.fault = "none"

\* The index hit a source of the result came from.
HitOf(source) == CHOOSE i \in 1..Len(store.hits) : store.hits[i].content = source.snippet

\* C20: every hit the text agent returns carries similarity = 1 - distance of
\* the index result it came from (rounded to 3 decimals in the source list);
\* the hits are sorted non-increasing by similarity, hits of equal similarity
\* in the order the index returned them.
C20_HitsSortedBySimilarityStable ==
    (agent_result # NoResponse /\ agent_result.status = "success") =>
        LET chunks == _retrieve_relevant_texts(store)
            sources == agent_result.sources
            dist(j) == store.hits[HitOf(sources[j])].distance
        IN  /\ Len(sources) = Len(chunks)
            /\ \A j \in 1..Len(sources) :
                   /\ sources[j].snippet = chunks[j].content
                   /\ \E i \in 1..Len(store.hits) : store.hits[i].content = sources[j].snippet
                   /\ chunks[j].similarity_score = One - dist(j)
                   /\ sources[j].similarity = round3(One - dist(j))
            /\ \A j, k \in 1..Len(sources) :
                   j < k =>
                       /\ One - dist(j) >= One - dist(k)
                       /\ sources[j].similarity >= sources[k].similarity
                       /\ (dist(j) = dist(k) => HitOf(sources[j]) < HitOf(sources[k]))

C20_Witness ==
    /\ agent_result # NoResponse
    /\ agent_result.status = "success"
    /\ Len(agent_result.sources) = 3
    /\ store.hits[1].distance > store.hits[2].distance
    /\ store.hits[2].distance = store.hits[3].distance
    /\ agent_result.sources[1].snippet = "c2"
    /\ agent_result.sources[2].snippet = "c3"

TableAnswered == agent_result # NoResponse /\ agent_result.status = "success"

AnyOccurs(keywords) == \E k \in keywords : occurs_in(k, lower(query))

\* The operator the question selects, by the priority list of the claim.
ExpectedOperator ==
    IF AnyOccurs({<<"count">>, <<"how", "many">>, <<"number", "of">>}) THEN "count"
    ELSE IF AnyOccurs({<<"sum">>, <<"total">>, <<"add">>}) THEN "sum"
    ELSE IF AnyOccurs({<<"average">>, <<"mean">>}) THEN "average"
    ELSE IF AnyOccurs({<<"maximum">>, <<"max">>, <<"highest">>}) THEN "maximum"
    ELSE IF AnyOccurs({<<"minimum">>, <<"min">>, <<"lowest">>}) THEN "minimum"
    ELSE IF AnyOccurs({<<"list">>, <<"show">>, <<"find">>}) THEN "list"
    ELSE "general"

NoNumericSummary(operator) ==
    CASE operator = "sum" -> "No numeric columns found for sum calculation."
      [] operator = "average" -> "No numeric columns found for average calculation."
      [] operator = "maximum" -> "No numeric columns found for maximum calculation."
      [] operator = "minimum" -> "No numeric columns found for minimum calculation."
      [] OTHER -> "no such summary"

\* How the summary of each operator starts.
SummaryStarts(operator) ==
    CASE operator = "count" -> {"This table contains "}
      [] operator = "sum" -> {"Sums calculated for numeric columns: ", NoNumericSummary("sum")}
      [] operator = "average" ->
             {"Averages calculated for numeric columns: ", NoNumericSummary("average")}
      [] operator = "maximum" ->
             {"Maximum values found for numeric columns: ", NoNumericSummary("maximum")}
      [] operator = "minimum" ->
             {"Minimum values found for numeric columns: ", NoNumericSummary("minimum")}
      [] operator = "list" -> {"Table has columns: "}
      [] OTHER -> {"General table information: "}

\* Positions of the per-table summaries in the answer.
AnalysisAt == {i \in 1..(Len(agent_result.answer) - 1) : agent_result.answer[i] = "Analysis: "}

\* C17: the table agent applies one operator per table, the first group in the
\* order count, sum, average, maximum, minimum, list with a keyword occurring
\* in the lower-cased question, the general summary when there is none; a
\* question with sum-intent and average-intent and no count-intent gets sum.
C17_OperatorByFirstMatchingGroup ==
    TableAnswered =>
        /\ AnalysisAt # {}
        /\ \A i \in AnalysisAt : agent_result.answer[i + 1] \in SummaryStarts(ExpectedOperator)
        /\ (AnyOccurs({<<"sum">>, <<"total">>, <<"add">>})
              /\ AnyOccurs({<<"average">>, <<"mean">>})
              /\ ~AnyOccurs({<<"count">>, <<"how", "many">>, <<"number", "of">>}))
           => \A i \in AnalysisAt : agent_result.answer[i + 1] \in SummaryStarts("sum")

C17_Witness ==
    /\ TableAnswered
    /\ query = <<"average", "Total">>
    /\ \E i \in AnalysisAt :
           agent_result.answer[i + 1] = "Sums calculated for numeric columns: "

\* The retained tables and, of those, the ones whose payload converts.
Retained == _find_relevant_tables(query, store)

Frame(t) == _convert_to_dataframe(t.table_data.table_data)

Converts(t) == DOMAIN t.table_data.table_data # {} /\ Frame(t) # None

\* No column of the frame is numeric: each holds a string or no number.
ZeroNumericColumns(df) ==
    \A j \in 1..Len(df.columns) :
        \/ \E i \in 1..Len(df.rows) : "str" \in DOMAIN df.rows[i][j]
        \/ \A i \in 1..Len(df.rows) : ~IsNum(df.rows[i][j])

\* C18: the sum, average, maximum and minimum operators applied to a table
\* with zero numeric columns return a result whose summary states that no
\* numeric columns were found, and the table contributes to a success result:
\* the answer holds that summary once for each such table.
C18_NoNumericColumnsStillAResult ==
    (/\ agent_result # NoResponse
     /\ store.fault = "none"
     /\ ExpectedOperator \in {"sum", "average", "maximum", "minimum"}
     /\ \E i \in 1..Len(Retained) : Converts(Retained[i]) /\ ZeroNumericColumns(Frame(Retained[i])))
    =>
        /\ agent_result.status = "success"
        /\ Cardinality({i \in AnalysisAt :
                           agent_result.answer[i + 1] = NoNumericSummary(ExpectedOperator)})
               = Cardinality({i \in 1..Len(Retained) :
                                 Converts(Retained[i]) /\ ZeroNumericColumns(Frame(Retained[i]))})

C18_Witness ==
    /\ TableAnswered
    /\ query = <<"minimum">>
    /\ store.tables = <<NamesRows>>
    /\ \E i \in AnalysisAt :
           agent_result.answer[i + 1] = "No numeric columns found for minimum calculation."

\* The payload has no row-of-maps view and some row's length differs from the
\* number of headers.
RaggedRows(t) ==
    LET payload == t.table_data.table_data
    IN  /\ "data" \notin DOMAIN payload
        /\ "rows" \in DOMAIN payload
        /\ "headers" \in DOMAIN payload
        /\ \E i \in 1..Len(payload.rows) : Len(payload.rows[i]) # Len(payload.headers)

\* C19: a retained table without a row-of-maps view and with ragged rows is
\* still analysed: it yields an analysis result, so a request whose retained
\* tables include one returns status success.
C19_RaggedTableStillAnalysed ==
    (/\ agent_result # NoResponse
     /\ store.fault = "none"
     /\ \E i \in 1..Len(Retained) : RaggedRows(Retained[i]))
    =>
        /\ \A i \in 1..Len(Retained) :
               RaggedRows(Retained[i]) => _analyze_table(query, Retained[i]) # None
        /\ agent_result.status = "success"


(***************************************************************************)
(* C21-C30                                                                 *)
(***************************************************************************)
\* The Supervisor result the last ask stored, and the payload it returned.
AskedResult == LastEntry.response
AskedPayload == last_op.outcome.value

\* C21: the response ask returns is decided by the status of the Supervisor
\* result: success gives the Supervisor's answer, one shaped source per
\* Supervisor source and confidence "high" exactly when the result carries a
\* true multi-agent flag, else "medium"; no_results gives the fixed apology,
\* the rephrase suggestion and no sources; any other status gives the fixed
\* error apology, the result's message and no sources.
C21_ResponseDeterminedByStatus ==
    (last_op.op = "ask" /\ "value" \in DOMAIN last_op.outcome) =>
        IF AskedResult.status = "success"
        THEN /\ AskedPayload.answer = AskedResult.answer
             /\ Len(AskedPayload.sources) = Len(AskedResult.sources)
             /\ \A i \in 1..Len(AskedResult.sources) :
                    /\ AskedPayload.sources[i].document = AskedResult.sources[i].document
                    /\ AskedPayload.sources[i].page = AskedResult.sources[i].page
                    /\ AskedPayload.sources[i].type = AskedResult.sources[i].type
             /\ AskedPayload.confidence =
                    (IF /\ "multi_agent_response" \in DOMAIN AskedResult
                        /\ AskedResult.multi_agent_response
                     THEN "high" ELSE "medium")
        ELSE IF AskedResult.status = "no_results"
        THEN AskedPayload =
                 [answer |-> "I couldn't find specific information to answer your question in the available documents.",
                  suggestion |-> "Try rephrasing your question or asking about different aspects of the documents.",
                  sources |-> <<>>]
        ELSE AskedPayload =
                 [answer |-> "I encountered an error while processing your question.",
                  error |-> AskedResult.message,
                  sources |-> <<>>]

\* An ask answered by one agent alone: a success that is not multi-agent.
C21_Witness ==
    /\ last_op.op = "ask"
    /\ "value" \in DOMAIN last_op.outcome
    /\ AskedResult.status = "success"
    /\ "multi_agent_response" \notin DOMAIN AskedResult
    /\ AskedPayload.confidence = "medium"
    /\ Len(AskedPayload.sources) > 0

\* The category's patterns of which the question triggers more than 0.30.
Detected(patterns) == PatternsMatched(patterns) * 10 > 3 * Len(patterns)

\* The categories process_query detects in the question, in the order the
\* Supervisor walks them.
DetectedCategories ==
    IF ~Detected(text_patterns) /\ ~Detected(table_patterns) /\ ~Detected(image_patterns)
    THEN <<"text">>
    ELSE SelectSeq(<<"text", "table", "image">>,
                   LAMBDA c : \/ c = "text" /\ Detected(text_patterns)
                              \/ c = "table" /\ Detected(table_patterns)
                              \/ c = "image" /\ Detected(image_patterns))

\* C22: in one request the Supervisor's result map holds one entry for every
\* detected category, entered in the order text, table, image, whatever the
\* agents before it returned; and when one of the entries is a success the
\* Supervisor's result is a success.
C22_EveryDetectedAgentInvokedInOrder ==
    (final_response # NoResponse /\ query # NoneQuestion) =>
        /\ MapKeys(agent_results) = DetectedCategories
        /\ \A i \in 1..Len(agent_results) :
               \A j \in 1..Len(agent_results) :
                   i < j => agent_results[i][1] # agent_results[j][1]
        /\ (\E i \in 1..Len(agent_results) : agent_results[i][2].status = "success")
               => final_response.status = "success"

\* The text agent failed, the table agent, invoked after it, succeeded, and
\* the image agent, invoked last, found nothing.
C22_Witness ==
    /\ final_response # NoResponse
    /\ Len(agent_results) = 3
    /\ agent_results[1][1] = "text" /\ agent_results[1][2].status = "error"
    /\ agent_results[2][1] = "table" /\ agent_results[2][2].status = "success"
    /\ agent_results[3][1] = "image" /\ agent_results[3][2].status = "no_results"
    /\ final_response.status = "success"

PatternsOf(category) ==
    CASE category = "text" -> text_patterns
      [] category = "table" -> table_patterns
      [] category = "image" -> image_patterns

Included(category) == InOrder(query_analysis.value.query_types, category)

\* As first stated: a category is in the result exactly when matched/total
\* of its own patterns exceeds 0.30.
C23_IncludedExactlyAboveThreshold ==
    Analysed =>
        \A c \in Categories :
            Included(c) <=> PatternsMatched(PatternsOf(c)) * 10 > 3 * Len(PatternsOf(c))

\* C23: each category is scored on its own as matched patterns over total
\* patterns (3 text, 5 table, 3 image).  When some category scores above 0.30
\* a category is in the result exactly when its own score exceeds 0.30, with
\* that score as its confidence: text and image from one matched pattern,
\* table only from two.  When no category scores above 0.30 the result is
\* text alone with confidence 0.5, though text's own score is not above 0.30.
C23_IncludedAboveThresholdOrDefault ==
    Analysed =>
        LET over(c) == PatternsMatched(PatternsOf(c)) * 10 > 3 * Len(PatternsOf(c))
            scores == query_analysis.value.confidence_scores
        IN  /\ Len(text_patterns) = 3 /\ Len(table_patterns) = 5 /\ Len(image_patterns) = 3
            /\ IF \E c \in Categories : over(c)
               THEN /\ \A c \in Categories :
                        /\ Included(c) <=> over(c)
                        /\ Included(c) =>
                               MapGet(scores, c) = [num |-> PatternsMatched(PatternsOf(c)),
                                                    den |-> Len(PatternsOf(c))]
                    /\ Included("text") <=> PatternsMatched(text_patterns) >= 1
                    /\ Included("image") <=> PatternsMatched(image_patterns) >= 1
                    /\ Included("table") <=> PatternsMatched(table_patterns) >= 2
               ELSE /\ query_analysis.value.query_types = <<"text">>
                    /\ scores = <<<<"text", [num |-> 1, den |-> 2]>>>>

\* One table pattern and one image pattern matched: image is in, table is not.
C23_Witness ==
    /\ Analysed
    /\ PatternsMatched(table_patterns) = 1
    /\ PatternsMatched(image_patterns) = 1
    /\ Included("image")
    /\ ~Included("table")

\* C24: in every analysis requires_multi_agent is true exactly when the
\* category list has more than one element; the list is non-empty and holds
\* no category twice; the keys of the confidence scores are exactly the listed
\* categories; and primary_type is one of them.
C24_AnalysisWellFormed ==
    Analysed =>
        LET a == query_analysis.value
            n == Len(a.query_types)
        IN  /\ a.requires_multi_agent <=> n > 1
            /\ n >= 1
            /\ \A i \in 1..n : \A j \in 1..n : i < j => a.query_types[i] # a.query_types[j]
            /\ {a.confidence_scores[i][1] : i \in 1..Len(a.confidence_scores)}
                   = {a.query_types[i] : i \in 1..n}
            /\ Len(a.confidence_scores) = n
            /\ \E i \in 1..n : a.query_types[i] = a.primary_type

\* A question with all three categories detected, table scoring highest.
C24_Witness ==
    /\ Analysed
    /\ Len(query_analysis.value.query_types) = 3
    /\ query_analysis.value.requires_multi_agent
    /\ query_analysis.value.primary_type = "table"

\* The keywords of the question: its lower-cased words, none of them a stop
\* word here.
QuestionKeywords == [i \in 1..Len(query) |-> IF query[i] = "Total" THEN "total" ELSE query[i]]

\* The keywords, counted with repetition, that occur in one of the words.
Occurrences(words) ==
    Cardinality({i \in 1..Len(QuestionKeywords) :
                    \E w \in words : \/ QuestionKeywords[i] = w
                                     \/ QuestionKeywords[i] = "total" /\ w = "totals"})

\* The score the rule gives each table of the fixtures for the question.
ExpectedRelevance(t) ==
    CASE t = AllShortRows -> 2 * Occurrences({"name", "total"})
                                 + Occurrences({"headers", "name", "total", "rows", "a"})
      [] t = SalesRecords -> Occurrences({"sales", "totals"})
                                 + 2 * Occurrences({"name", "qty"})
                                 + Occurrences({"data", "name", "qty", "a", "b"})
      [] t = SalesRows -> Occurrences({"average", "sales"})
                              + 2 * Occurrences({"name", "qty"})
                              + Occurrences({"headers", "name", "qty", "rows", "a", "b"})

StoredAbove(n) ==
    Cardinality({i \in 1..Len(store.tables) : ExpectedRelevance(store.tables[i]) > n})

\* C25: a table scores +1 for each keyword in its caption, +2 for each
\* keyword in its joined headers and +1 for each keyword in its serialized
\* payload; tables scoring 0 are left out; the retained tables are in order of
\* non-increasing score; at most 5 are retained, and every stored table that
\* scores higher than a retained one is retained too.
C25_TablesScoredSortedAndCut ==
    agent_result # NoResponse =>
        LET retained == Retained
            n == Len(retained)
            score == [i \in 1..n |-> retained[i].relevance_score]
            expected == [i \in 1..Len(store.tables) |-> ExpectedRelevance(store.tables[i])]
            above(x) == Cardinality({i \in 1..Len(store.tables) : expected[i] > x})
        IN  /\ \A i \in 1..n :
                   /\ \E j \in 1..Len(store.tables) :
                          /\ store.tables[j] = retained[i].table_data
                          /\ score[i] = expected[j]
                   /\ score[i] > 0
                   /\ i < n => score[i] >= score[i + 1]
                   /\ Cardinality({k \in 1..n : score[k] > score[i]}) = above(score[i])
            /\ n = (IF above(0) < 5 THEN above(0) ELSE 5)
            /\ agent_result.status = "success" =>
                   /\ Len(agent_result.sources) = n
                   /\ \A i \in 1..n : agent_result.sources[i].relevance = score[i]
            /\ n = 0 => agent_result.status = "no_results"

\* Six stored tables score above 0, the highest of them stored last: five are
\* retained, the highest first, and a table scoring 1 is cut.
C25_Witness ==
    /\ agent_result # NoResponse
    /\ agent_result.status = "success"
    /\ StoredAbove(0) = 6
    /\ ExpectedRelevance(store.tables[6]) = 4
    /\ Len(agent_result.sources) = 5
    /\ agent_result.sources[1].relevance = 4
    /\ agent_result.sources[5].relevance = 1

\* The question holds a figure-reference word.
HasFigureReference == \E i \in 1..Len(query) : query[i] = "figure"

\* The question's keywords are its words longer than two characters; its one
\* possible entity is "page 2".
KeywordCount(w) == Cardinality({i \in 1..Len(query) : query[i] = w})

HasPageEntity == \E i \in 1..(Len(query) - 1) : query[i] = "page" /\ query[i + 1] = "2"

\* The score of each fixture from its caption and alt text alone: +2 for a
\* keyword and +3 for an entity in the caption, +1 for a keyword in the alt
\* text.
ExpectedTextScore(image) ==
    CASE image = CaptionedImage ->
             2 * (KeywordCount("chart") + KeywordCount("page")) + (IF HasPageEntity THEN 3 ELSE 0)
      [] image = AltTextImage -> KeywordCount("chart")
      [] image = BareImage -> 0

\* C26: when the question contains a figure-reference word every stored
\* image scores one more than its caption and alt text give it and so is
\* relevant, captioned or not; otherwise an image is relevant only if a
\* keyword or entity occurs in its caption or a keyword in its alt text.  The
\* relevant images are retained by non-increasing score, at most 5 of them and
\* the highest first, and with no relevant image the agent returns
\* no_results.
C26_FigureReferenceMakesEveryImageRelevant ==
    (agent_result # NoResponse /\ store.fault = "none") =>
        LET retained == _find_relevant_images(query, store)
            n == Len(retained)
            score == [i \in 1..n |-> retained[i].relevance_score]
            expected == [i \in 1..Len(store.images) |->
                            ExpectedTextScore(store.images[i])
                                + (IF HasFigureReference THEN 1 ELSE 0)]
            above(x) == Cardinality({i \in 1..Len(store.images) : expected[i] > x})
        IN  /\ \A i \in 1..n :
                   /\ \E j \in 1..Len(store.images) :
                          /\ store.images[j] = retained[i].image_data
                          /\ score[i] = expected[j]
                   /\ score[i] > 0
                   /\ i < n => score[i] >= score[i + 1]
                   /\ Cardinality({k \in 1..n : score[k] > score[i]}) = above(score[i])
            /\ n = (IF above(0) < 5 THEN above(0) ELSE 5)
            /\ HasFigureReference => above(0) = Len(store.images)
            /\ ~HasFigureReference =>
                   above(0) = Cardinality({i \in 1..Len(store.images) :
                                              ExpectedTextScore(store.images[i]) > 0})
            /\ above(0) = 0 =>
                   /\ agent_result.status = "no_results"
                   /\ agent_result.message = <<"No relevant images found for your query.">>
            /\ above(0) > 0 =>
                   agent_result.message # <<"No relevant images found for your query.">>

\* "figure chart" with six stored images, the captioned one last: five are
\* retained, the captioned one first, and an image with neither caption nor
\* alt text is among them.
C26_Witness ==
    /\ agent_result # NoResponse
    /\ store.fault = "none"
    /\ query = <<"figure", "chart">>
    /\ Len(store.images) = 6
    /\ store.images[6] = CaptionedImage
    /\ Len(_find_relevant_images(query, store)) = 5
    /\ _find_relevant_images(query, store)[1].image_data = CaptionedImage
    /\ _find_relevant_images(query, store)[5].image_data = BareImage

\* The index hits for which storage holds a TextBlock of the hit's document
\* and page.
SurvivingHits ==
    {i \in 1..Len(store.hits) :
        \E key \in store.text_blocks :
            /\ key[1] = store.hits[i].metadata.document_id
            /\ key[2] = store.hits[i].metadata.page_number}

\* C27: in a request in which no step fails, the text agent keeps exactly the
\* index hits that have a TextBlock of the same document id and page number:
\* with no such hit it returns no_results with no sources and no answer,
\* otherwise success with one source per kept hit, never more than 5.
C27_HitsWithoutTextBlockDiscarded ==
    (agent_result # NoResponse /\ store.fault = "none") =>
        IF SurvivingHits = {}
        THEN /\ agent_result.status = "no_results"
             /\ agent_result.sources = <<>>
             /\ "answer" \notin DOMAIN agent_result
        ELSE /\ agent_result.status = "success"
             /\ Len(agent_result.sources) = Cardinality(SurvivingHits)
             /\ Len(agent_result.sources) <= 5
             /\ agent_result.retrieved_chunks = Cardinality(SurvivingHits)
             /\ \A i \in 1..Len(store.hits) :
                    i \in SurvivingHits <=>
                        \E k \in 1..Len(agent_result.sources) :
                            agent_result.sources[k].snippet = store.hits[i].content

\* Five hits, three of them with a TextBlock: three sources.
C27_Witness ==
    /\ agent_result # NoResponse
    /\ store.fault = "none"
    /\ Len(store.hits) = 5
    /\ Cardinality(SurvivingHits) = 3
    /\ agent_result.status = "success"
    /\ Len(agent_result.sources) = 3

\* The categories the Supervisor dispatched for the last ask, and whether
\* none of their agents returned a success.
Dispatched ==
    LET types == QueryAnalyzer_process_query(last_op.question).query_types
    IN  {types[i] : i \in 1..Len(types)}

NoAgentSucceeded ==
    \A c \in Dispatched : last_op.oracle[c].status \in {"error", "no_results"}

\* C28: when every dispatched agent returns error or no_results, the
\* Supervisor's result is no_results and ask returns exactly the fixed
\* apology, the suggestion and an empty source list, with no error field and
\* none of the agents' messages; a returned payload with an error field or an
\* error status comes only from a failure of the Supervisor itself or of the
\* orchestrator.
C28_AgentErrorsNeverReachUser ==
    (last_op.op = "ask" /\ ~last_op.outcome.raised) =>
        /\ (/\ last_op.fault = "none"
            /\ last_op.question # NoneQuestion
            /\ NoAgentSucceeded)
               => /\ AskedResult.status = "no_results"
                  /\ AskedPayload =
                         [answer |-> "I couldn't find specific information to answer your question in the available documents.",
                          suggestion |-> "Try rephrasing your question or asking about different aspects of the documents.",
                          sources |-> <<>>]
        /\ ("error" \in DOMAIN AskedPayload \/ "status" \in DOMAIN AskedPayload)
               => \/ last_op.fault # "none"
                  \/ /\ last_op.question = NoneQuestion
                     /\ AskedResult.status = "error"
                     /\ AskedResult.message[1] = "Supervisor error: "
                     /\ AskedPayload.error = AskedResult.message

\* The text agent and the image agent were dispatched, one returned an error
\* and the other found nothing; the user got the apology.
C28_Witness ==
    /\ last_op.op = "ask"
    /\ last_op.fault = "none"
    /\ last_op.question # NoneQuestion
    /\ Dispatched = {"text", "image"}
    /\ last_op.oracle["text"].status = "error"
    /\ last_op.oracle["image"].status = "no_results"
    /\ AskedResult.status = "no_results"
    /\ Len(AskedResult.message) > 1
    /\ "error" \notin DOMAIN AskedPayload

\* The number of per-table sections in the answer of the table agent.
TablesInAnswer ==
    Cardinality({i \in 1..Len(agent_result.answer) : agent_result.answer[i] = "Table "})

\* C29: in a success result of the table agent the source list and
\* tables_analyzed cover exactly the tables that appear in the answer: a
\* retained table whose analysis gave no result is neither counted nor listed.
C29_SourcesCoverAnsweredTables ==
    (agent_result # NoResponse /\ agent_result.status = "success") =>
        /\ agent_result.tables_analyzed = TablesInAnswer
        /\ Len(agent_result.sources) = TablesInAnswer

\* The stored entries of one session, oldest first.
StoredOf(history, session) == SelectSeq(history, LAMBDA entry : entry.session_id = session)

\* C30: an ask or a history call for one session leaves the stored entries of
\* every other session as they were; a history call leaves the whole stored
\* history as it was; and a clear that directly follows a clear of the same
\* session leaves the stored history as the first clear left it.
C30_SessionIsolation ==
    [][ /\ last_op'.op \in {"ask", "history"} =>
               \A b \in Sessions \ {last_op'.session} :
                   StoredOf(conversation_history', b) = StoredOf(conversation_history, b)
        /\ last_op'.op = "history" => conversation_history' = conversation_history
        /\ (/\ last_op.op = "clear"
            /\ last_op'.op = "clear"
            /\ last_op'.session = last_op.session)
               => conversation_history' = conversation_history
      ]_vars

\* A second clear of a session right after the first, with entries of the
\* other session stored.
C30_Witness ==
    /\ last_op.op = "clear"
    /\ last_op.repeated
    /\ last_op.removed = 0
    /\ conversation_history # <<>>

====
